---- MODULE Spec2Model ----
(***************************************************************************)
(* Tool-execution layer of the general purpose agent:                      *)
(*   - BaseTool.execute, the uniform wrapper around every tool's _execute  *)
(*     (task/tools/base.py);                                               *)
(*   - DeploymentTool._execute and the streaming loop of RagTool._execute, *)
(*     which aggregate a streamed completion and forward it to the stage   *)
(*     (task/tools/deployment/base.py, task/tools/rag/rag_tool.py);        *)
(*   - MCPClient, the session to the external tool server, and MCPTool,    *)
(*     the tool that forwards a call to it                                 *)
(*     (task/tools/mcp/mcp_client.py, task/tools/mcp/mcp_tool.py);         *)
(*   - RagTool._execute up to the completion request, and                  *)
(*     PythonCodeInterpreterTool, its create and _execute                  *)
(*     (task/tools/py_interpreter/python_code_interpreter_tool.py).        *)
(*                                                                         *)
(* Conventions.  A Python string is a sequence of tokens, so that string   *)
(* concatenation is \o and a prefix test is a test on sequences.  An       *)
(* Optional value is a sequence of length 0 (None) or 1 (the value).       *)
(* Errors are instances of Exception: records with a type and the text     *)
(* str(e).                                                                 *)
(***************************************************************************)
EXTENDS Integers, Sequences, FiniteSets, TLC

VARIABLES
    \* ---- one tool call through BaseTool.execute ----
    tool,            \* which concrete tool is called: "deployment", "rag" or "mcp"
    call,            \* ToolCallParams: tool_call.id, function.name, arguments
    tpc,             \* position of the call: ready, creating, streaming,
                     \* calling (the MCP tool awaits call_tool), done
    msg,             \* the Message execute builds and returns (None before)
    content,         \* local `content` of the streaming loop
    custom_content,  \* local `custom_content.attachments` (deployment tool)
    stage,           \* stage.append_content calls of the call, in order
    stageAtts,       \* stage.add_attachment calls of the call, in order
    createCalls,     \* number of chat.completions.create requests issued
    received,        \* the increments the stream has delivered so far
    raised,          \* the exception _execute raised (None when none)
    streamStart,     \* Len(stage) when the streaming loop was entered (-1 before)
    \* ---- one MCPClient and the tasks that call it ----
    session,         \* self.session: None or the entered ClientSession
    streams_context, \* self._streams_context: None or the transport context
    session_context, \* self._session_context: None or the ClientSession context
    nextCtx,         \* identity of the next context object constructed
    unreleased,      \* contexts entered whose __aexit__ has not been called
    mpc,             \* per task: where it is suspended ("idle" between calls)
    op,              \* per task: the MCPClient method it runs or ran last
    frame,           \* per task: the locals of that method
    trace,           \* per task: what that call asked of transport and server
    result,          \* per task: how that call ended (pending while it runs)
    warnings,        \* per task: the warnings close() printed in that call
    phase,           \* the session state of the design: Disconnected,
                     \* Connecting, Connected or Closed
    phase0,          \* per task: the phase in which that call was made
    everClosed,      \* a close() has run to completion on this client
    calls,           \* number of method calls made on the client
    \* ---- the RagTool, its document cache and the tasks that call it ----
    document_cache,  \* self.document_cache: cache key -> <<index, chunks>>
    cacheWrites,     \* the document_cache.set calls made so far, in order
    lastCall,        \* the RAG call started last (None before the first)
    ragCalls,        \* number of RAG calls started
    rpc,             \* per task: position of its RAG call
    rcall,           \* per task: the ToolCallParams of its RAG call
    rloc,            \* per task: the locals of RagTool._execute
    rwork,           \* per task: what that call asked of its collaborators
    rstage,          \* per task: stage.append_content calls of that call
    rmsg,            \* per task: the Message execute returned (None before)
    rraised,         \* per task: the exception _execute raised
    rrecv,           \* per task: increments the stream has delivered
    \* ---- one call of the PythonCodeInterpreterTool ----
    pypc,            \* position of the call: ready, calling, reading, staged, done
    pycall,          \* its ToolCallParams
    pyExec,          \* execution_result as validated (None before)
    pyOut,           \* execution_result.output when the call ends
    pyIdx,           \* number of the file the loop is at (0 outside the loop)
    pyStage,         \* stage.append_content calls of the call, in order
    pyStageAtts,     \* stage.add_attachment calls of the call, in order
    pyChoiceAtts,    \* choice.add_attachment calls of the call, in order
    pyEvents,        \* resource reads, uploads and attachments, as they happen
    pyMsg,           \* the Message execute returned (None before)
    pyRaised,        \* the exception _execute raised (None when none)
    \* ---- one call of PythonCodeInterpreterTool.create ----
    cpc,             \* its position: none, start, connecting, connected,
                     \* listing, done
    wanted,          \* its tool_name argument
    made             \* how it ended: the tool it returned or what it raised

toolVars == <<tool, call, tpc, msg, content, custom_content, stage, stageAtts,
              createCalls, received, raised, streamStart>>

mcpVars == <<session, streams_context, session_context, nextCtx, unreleased,
             mpc, op, frame, trace, result, warnings, phase, phase0,
             everClosed, calls>>

ragVars == <<document_cache, cacheWrites, lastCall, ragCalls, rpc, rcall, rloc,
             rwork, rstage, rmsg, rraised, rrecv>>

pyVars == <<pypc, pycall, pyExec, pyOut, pyIdx, pyStage, pyStageAtts,
            pyChoiceAtts, pyEvents, pyMsg, pyRaised>>

createVars == <<cpc, wanted, made>>

vars == <<toolVars, mcpVars, ragVars, pyVars, createVars>>

\* what a step of one part of the program leaves alone (a step of the
\* client may be a step of create or of the MCP tool, which run on the
\* client; soloVars is what it leaves alone when it is neither)
notToolVars == <<mcpVars, ragVars, pyVars, createVars>>
notMcpVars == <<ragVars, pyVars>>
soloVars == <<toolVars, createVars>>
notRagVars == <<toolVars, mcpVars, pyVars, createVars>>
notPyVars == <<toolVars, mcpVars, ragVars, createVars>>

-----------------------------------------------------------------------------
(* Bounds *)

\* longest stream (number of increments) the model delivers
MaxIncs == 3

\* number of MCPClient method calls in one behaviour
MaxOps == 4

-----------------------------------------------------------------------------
(* Optional values and strings *)

None == <<>>
Some(x) == <<x>>
Val(o) == o[1]

\* Python truthiness of an Optional[str] / Optional[list]: None, "" and []
\* are all falsy
Truthy(o) == o # None /\ Val(o) # <<>>

RECURSIVE Concat(_)
Concat(ss) == IF ss = <<>> THEN <<>> ELSE Head(ss) \o Concat(Tail(ss))

IsPrefix(p, s) == Len(p) <= Len(s) /\ SubSeq(s, 1, Len(p)) = p

-----------------------------------------------------------------------------
(* Inputs of a tool call *)

Tools == {"deployment", "rag", "mcp"}
CallIds == {"call_1", "call_2"}
ToolNames == {"tool_a", "tool_b"}

\* texts that are not JSON
MalformedTexts == {"not json", "{", "[1,2"}

\* function.arguments: a JSON text that parses or not (then the text
\* itself), and the keys it holds
ArgKeys(t) == IF t = "deployment" THEN {"prompt"} ELSE {"q"}
Arguments(t) ==
    {[valid |-> FALSE, keys |-> {}, text |-> m] : m \in MalformedTexts} \cup
    {[valid |-> TRUE, keys |-> ks] : ks \in SUBSET ArgKeys(t)}

\* Attachments carry the six fields the deployment tool copies
AttA == [type |-> "image/png", title |-> "A", data |-> None,
         url |-> Some("files/a.png"), reference_url |-> None,
         reference_type |-> None]
AttB == [type |-> "text/markdown", title |-> "B", data |-> Some("inline"),
         url |-> None, reference_url |-> Some("http://ref"),
         reference_type |-> Some("text/html")]

Delta(c, cc) == [content |-> c, custom_content |-> cc]
CC(atts) == Some([attachments |-> atts])
Chunk(choices) == [choices |-> choices]
Choice(d) == [delta |-> d]

\* The stream increments the model draws from: every shape the loop tests
Increments == {
    Chunk(None),
    Chunk(Some(<<>>)),
    Chunk(Some(<<Choice(None)>>)),
    Chunk(Some(<<Choice(Some(Delta(None, None)))>>)),
    Chunk(Some(<<Choice(Some(Delta(Some(<<>>), CC(None))))>>)),
    Chunk(Some(<<Choice(Some(Delta(Some(<<"a", "b">>), None)))>>)),
    Chunk(Some(<<Choice(Some(Delta(Some(<<"c">>), CC(Some(<<>>)))))>>)),
    Chunk(Some(<<Choice(Some(Delta(None, CC(Some(<<AttA>>)))))>>)),
    Chunk(Some(<<Choice(Some(Delta(Some(<<"c">>), CC(Some(<<AttB, AttA>>)))))>>)),
    Chunk(Some(<<Choice(Some(Delta(Some(<<"a", "b">>), None))),
                 Choice(Some(Delta(Some(<<"c">>), CC(Some(<<AttB>>)))))>>)),
    Chunk(Some(<<Choice(None),
                 Choice(Some(Delta(Some(<<"c">>), None)))>>))
}

\* Exceptions
Err(type, desc) == [type |-> type, desc |-> desc]
\* json.loads(text) on a text that is not JSON: the decoder's message says
\* what it expected and where it stopped
JsonError(text) ==
    Err("JSONDecodeError",
        CASE text = "not json" ->
               <<"Expecting value: line 1 column 1 (char 0)">>
          [] text = "{" ->
               <<"Expecting property name enclosed in double quotes: ",
                 "line 1 column 2 (char 1)">>
          [] text = "[1,2" ->
               <<"Expecting ',' delimiter: line 1 column 5 (char 4)">>)
KeyErr(k) == Err("KeyError", <<"'", k, "'">>)
TransportErrors == {Err("APIConnectionError", <<"Connection error.">>),
                    Err("APITimeoutError", <<"Request timed out.">>)}

-----------------------------------------------------------------------------
(* MCPClient: values *)

\* the tasks that may call the client; the sequential specification uses
\* the first alone
Tasks == {"main", "other"}

Set(f, t, v) == [f EXCEPT ![t] = v]

\* how a call ended
Pending == [kind |-> "pending"]
Return(v) == [kind |-> "return", value |-> v]
Raise(e) == [kind |-> "raise", error |-> e]

\* Python values a call returns
PyNone == [py |-> "None"]
PyStr(s) == [py |-> "str", v |-> s]
PyObj(o) == [py |-> "object", v |-> o]
PyList(l) == [py |-> "list", v |-> l]

\* raise RuntimeError("MCP client not connected.")
NotConnected == Err("RuntimeError", <<"MCP client not connected.">>)

\* raise ValueError(f"MCP server connection failed: {e}")
ConnectionFailed(e) == Err("ValueError", <<"MCP server connection failed: ">> \o e.desc)

\* what transport and server calls may raise
ServerErrors == {Err("ConnectError", <<"All connection attempts failed">>),
                 Err("McpError", <<"Request timed out">>)}

\* locals of connect() and close(): the context objects whose __aenter__ or
\* __aexit__ is awaited, whether close() runs inside connect()'s except
\* block, the ping exception handled there, and whether the method was
\* called by the client's own __aenter__ / __aexit__ (scoped use); and of
\* get_resource: resource_result.contents (None before the server answers)
NoFrame == [sc |-> None, xc |-> None, inConnect |-> FALSE, pingErr |-> None,
            scoped |-> FALSE, contents |-> None]

\* MCPClient.__init__
MCPConstructed ==
    /\ session = None
    /\ streams_context = None
    /\ session_context = None
    /\ nextCtx = 1
    /\ unreleased = {}
    /\ mpc = [t \in Tasks |-> "idle"]
    /\ op = [t \in Tasks |-> "none"]
    /\ frame = [t \in Tasks |-> NoFrame]
    /\ trace = [t \in Tasks |-> <<>>]
    /\ result = [t \in Tasks |-> Pending]
    /\ warnings = [t \in Tasks |-> <<>>]
    /\ phase = "Disconnected"
    /\ phase0 = [t \in Tasks |-> "Disconnected"]
    /\ everClosed = FALSE
    /\ calls = 0

\* locals of RagTool._execute: whether the lookup hit, the extracted text
\* (None when nothing was extracted), the index and chunks in use, the
\* labels the search returned, the augmented prompt, the streamed content;
\* and, as history, the call started just before this one and the tasks
\* whose calls were suspended when this one started
NoLocals == [hit |-> FALSE, text |-> None, index |-> <<>>, chunks |-> <<>>,
             labels |-> <<>>, prompt |-> <<>>, content |-> <<>>,
             pred |-> None, during |-> {}]

NoRagCall == [id |-> "call_1", name |-> "tool_a", conversation_id |-> <<>>,
              arguments |-> [valid |-> FALSE, request |-> None,
                             file_url |-> None]]

\* RagTool.__init__ with a new DocumentCache, before any call
RagConstructed ==
    /\ document_cache = << >>
    /\ cacheWrites = <<>>
    /\ lastCall = None
    /\ ragCalls = 0
    /\ rpc = [t \in Tasks |-> "idle"]
    /\ rcall = [t \in Tasks |-> NoRagCall]
    /\ rloc = [t \in Tasks |-> NoLocals]
    /\ rwork = [t \in Tasks |-> <<>>]
    /\ rstage = [t \in Tasks |-> <<>>]
    /\ rmsg = [t \in Tasks |-> None]
    /\ rraised = [t \in Tasks |-> None]
    /\ rrecv = [t \in Tasks |-> 0]

NoPyCall == [id |-> "call_1", name |-> "tool_a",
             arguments |-> [valid |-> TRUE, code |-> None, session_id |-> None]]

\* PythonCodeInterpreterTool.__init__, before any call
PyConstructed ==
    /\ pypc = "ready"
    /\ pycall = NoPyCall
    /\ pyExec = None
    /\ pyOut = <<>>
    /\ pyIdx = 0
    /\ pyStage = <<>>
    /\ pyStageAtts = <<>>
    /\ pyChoiceAtts = <<>>
    /\ pyEvents = <<>>
    /\ pyMsg = None
    /\ pyRaised = None

\* no PythonCodeInterpreterTool.create is running
NotCreating ==
    /\ cpc = "none"
    /\ wanted = "execute_code"
    /\ made = Pending

-----------------------------------------------------------------------------
(* BaseTool.execute *)

ToolRole == "tool"

ErrorMarker == <<"ERROR during tool call execution:\n ">>

\* msg = Message(role=Role.TOOL, name=..., tool_call_id=...)
NewToolMessage(c) ==
    [role |-> ToolRole, name |-> Some(c.name), tool_call_id |-> Some(c.id),
     content |-> None, custom_content |-> None]

ErrorContent_NoMarker(e) == e.desc

\* f"ERROR during tool call execution:\n {e}"
ErrorContent(e) == ErrorMarker \o e.desc

\* except Exception as e: msg.content = ...
Caught(m, e) == [m EXCEPT !.content = Some(ErrorContent(e))]

\* result of _execute: a str, or a Message used verbatim
TextResult(t) == [kind |-> "str", text |-> t]
MessageResult(m) == [kind |-> "Message", msg |-> m]

Returned(m, res) ==
    IF res.kind = "Message" THEN res.msg
    ELSE [m EXCEPT !.content = Some(res.text)]

\* execute ends: _execute raised e, caught by execute
ExecuteRaises(m, e) ==
    /\ msg' = Some(Caught(m, e))
    /\ raised' = Some(e)
    /\ tpc' = "done"

\* execute ends: _execute returned res
ExecuteReturns(m, res) ==
    /\ msg' = Some(Returned(m, res))
    /\ raised' = None
    /\ tpc' = "done"

-----------------------------------------------------------------------------
(* The streaming loop shared by DeploymentTool._execute and RagTool._execute *)

\* chunk.choices and len(chunk.choices) > 0; delta = chunk.choices[0].delta
DeltaOf(inc) ==
    IF Truthy(inc.choices) /\ Len(Val(inc.choices)) > 0
    THEN Val(inc.choices)[1].delta
    ELSE None

\* if delta: if delta.content: ... -- the text the loop takes from a delta
TextOf(d) ==
    IF d # None /\ Truthy(Val(d).content) THEN Val(Val(d).content) ELSE <<>>

\* if delta.custom_content and delta.custom_content.attachments
\* (deployment tool only; the RAG loop reads delta.content alone)
AttsOf(t, d) ==
    IF /\ t = "deployment"
       /\ d # None
       /\ Val(d).custom_content # None
       /\ Truthy(Val(Val(d).custom_content).attachments)
    THEN Val(Val(Val(d).custom_content).attachments)
    ELSE <<>>

Accumulate_Prepend(acc, txt) == txt \o acc

\* content += delta.content
Accumulate(acc, txt) == acc \o txt

\* stage.append_content(delta.content), called only under `if delta.content`
AppendContent(stg, txt) == IF txt # <<>> THEN Append(stg, txt) ELSE stg

StageAttachment_NoReference(a) ==
    [type |-> a.type, title |-> a.title, data |-> a.data, url |-> a.url,
     reference_url |-> None, reference_type |-> None]

\* stage.add_attachment(type=, title=, data=, url=, reference_url=,
\* reference_type=): the attachment rebuilt on the stage from six fields
StageAttachment(a) ==
    [type |-> a.type, title |-> a.title, data |-> a.data, url |-> a.url,
     reference_url |-> a.reference_url, reference_type |-> a.reference_type]

\* for attachment in attachments: stage.add_attachment(...)
AddAttachments(satts, atts) ==
    satts \o [i \in 1..Len(atts) |-> StageAttachment(atts[i])]

\* return Message(role=Role.TOOL, content=, custom_content=, tool_call_id=)
\* -- the deployment tool's message is built without a name
DeploymentMessage(c, text, atts) ==
    [role |-> ToolRole, name |-> None, tool_call_id |-> Some(c.id),
     content |-> Some(text), custom_content |-> Some([attachments |-> atts])]

-----------------------------------------------------------------------------
(* Actions of one tool call *)

streamLocals == <<content, custom_content, stage, stageAtts, received, streamStart>>

\* execute -> DeploymentTool._execute up to `await ...completions.create(...)`
DeploymentBegin ==
    /\ tool = "deployment"
    /\ tpc = "ready"
    /\ LET m == NewToolMessage(call) IN
       IF ~call.arguments.valid
       THEN ExecuteRaises(m, JsonError(call.arguments.text)) /\ UNCHANGED createCalls
       ELSE IF "prompt" \notin call.arguments.keys
       THEN ExecuteRaises(m, KeyErr("prompt")) /\ UNCHANGED createCalls
       ELSE /\ msg' = Some(m)
            /\ tpc' = "creating"
            /\ createCalls' = createCalls + 1
            /\ UNCHANGED raised
    /\ UNCHANGED <<tool, call, streamLocals>>
    /\ UNCHANGED notToolVars

\* the completion request returns the stream: content = '' and
\* custom_content = CustomContent(attachments=[])
CreateReturns ==
    /\ tpc = "creating"
    /\ tpc' = "streaming"
    /\ content' = <<>>
    /\ custom_content' = <<>>
    /\ streamStart' = Len(stage)
    /\ UNCHANGED <<tool, call, msg, stage, stageAtts, createCalls, received, raised>>
    /\ UNCHANGED notToolVars

\* the completion request raises
CreateFails(e) ==
    /\ tpc = "creating"
    /\ ExecuteRaises(Val(msg), e)
    /\ UNCHANGED <<tool, call, streamLocals, createCalls>>
    /\ UNCHANGED notToolVars

\* async for chunk in chunks: one increment arrives and is processed
StreamNext(inc) ==
    /\ tpc = "streaming"
    /\ Len(received) < MaxIncs
    /\ LET d == DeltaOf(inc)
           txt == TextOf(d)
           atts == AttsOf(tool, d)
       IN /\ stage' = AppendContent(stage, txt)
          /\ content' = Accumulate(content, txt)
          /\ custom_content' = custom_content \o atts
          /\ stageAtts' = AddAttachments(stageAtts, atts)
    /\ received' = Append(received, inc)
    /\ UNCHANGED <<tool, call, tpc, msg, createCalls, raised, streamStart>>
    /\ UNCHANGED notToolVars

\* the stream ends: _execute returns and execute builds its message
StreamEnds ==
    /\ tpc = "streaming"
    /\ ExecuteReturns(Val(msg),
          IF tool = "deployment"
          THEN MessageResult(DeploymentMessage(call, content, custom_content))
          ELSE TextResult(content))
    /\ UNCHANGED <<tool, call, streamLocals, createCalls>>
    /\ UNCHANGED notToolVars

StreamFails_Rollback(e) ==
    /\ tpc = "streaming"
    /\ ExecuteRaises(Val(msg), e)
    /\ stage' = SubSeq(stage, 1, streamStart)
    /\ stageAtts' = <<>>
    /\ UNCHANGED <<tool, call, content, custom_content, received, streamStart, createCalls>>
    /\ UNCHANGED notToolVars

\* the stream raises while the loop waits for the next increment: the
\* exception leaves _execute and is caught by execute
StreamFails(e) ==
    /\ tpc = "streaming"
    /\ ExecuteRaises(Val(msg), e)
    /\ UNCHANGED <<tool, call, streamLocals, createCalls>>
    /\ UNCHANGED notToolVars

-----------------------------------------------------------------------------
(* MCPClient: connect, close and the tool operations.  Every method is cut *)
(* at its awaits: an action runs a task from one await to the next.        *)

clientVars == <<session, streams_context, session_context>>

\* a task calls a method of the client
BeginCall(t, name) ==
    /\ mpc[t] = "idle"
    /\ calls < MaxOps
    /\ calls' = calls + 1
    /\ op' = Set(op, t, name)
    /\ phase0' = Set(phase0, t, phase)
    /\ warnings' = Set(warnings, t, <<>>)

\* the call of task t ends with outcome r
Ends(t, r) ==
    /\ mpc' = Set(mpc, t, "idle")
    /\ result' = Set(result, t, r)

\* task t suspends at await `at`, having asked `request`
Awaits(t, at, tr, request) ==
    /\ mpc' = Set(mpc, t, at)
    /\ trace' = Set(trace, t, Append(tr, request))
    /\ result' = Set(result, t, Pending)

CloseFinally_KeepsSession(t, tr, fr) ==
    /\ UNCHANGED session
    /\ session_context' = None
    /\ streams_context' = None
    /\ trace' = Set(trace, t, tr)
    /\ frame' = Set(frame, t, fr)
    /\ Ends(t, IF fr.inConnect THEN Raise(ConnectionFailed(Val(fr.pingErr)))
               ELSE Return(PyNone))
    /\ phase' = "Closed"
    /\ everClosed' = TRUE

\* close(): finally: the three references are cleared; close() returns, and
\* inside connect()'s except block connect() then raises ValueError
CloseFinally(t, tr, fr) ==
    /\ session' = None
    /\ session_context' = None
    /\ streams_context' = None
    /\ trace' = Set(trace, t, tr)
    /\ frame' = Set(frame, t, fr)
    /\ Ends(t, IF fr.inConnect THEN Raise(ConnectionFailed(Val(fr.pingErr)))
               ELSE Return(PyNone))
    /\ phase' = "Closed"
    /\ everClosed' = TRUE

\* close(): second try: if self._streams_context: await its __aexit__
CloseStreams(t, tr, fr) ==
    IF streams_context # None
    THEN /\ Awaits(t, "x_streams", tr, "exit_streams")
         /\ frame' = Set(frame, t, [fr EXCEPT !.sc = streams_context])
         /\ UNCHANGED <<clientVars, phase, everClosed>>
    ELSE CloseFinally(t, tr, fr)

\* close(): first try: if self._session_context: await its __aexit__
CloseSession(t, tr, fr) ==
    IF session_context # None
    THEN /\ Awaits(t, "x_session", tr, "exit_session")
         /\ frame' = Set(frame, t, [fr EXCEPT !.xc = session_context])
         /\ UNCHANGED <<clientVars, phase, everClosed>>
    ELSE CloseStreams(t, tr, fr)

AlreadyConnected_Never == FALSE

\* if self.session is not None: return
AlreadyConnected == session # None

\* connect(), called directly or by __aenter__ (`await self.connect()`), up
\* to `await self._streams_context.__aenter__()`
Connect(t) ==
    /\ BeginCall(t, "connect")
    /\ \E scoped \in BOOLEAN :
       IF AlreadyConnected
       THEN /\ Ends(t, Return(PyNone))
            /\ trace' = Set(trace, t, <<>>)
            /\ frame' = Set(frame, t, [NoFrame EXCEPT !.scoped = scoped])
            /\ UNCHANGED <<clientVars, nextCtx, phase>>
       ELSE /\ streams_context' = Some(nextCtx)
            /\ nextCtx' = nextCtx + 1
            /\ frame' = Set(frame, t, [NoFrame EXCEPT !.sc = Some(nextCtx),
                                                      !.scoped = scoped])
            /\ Awaits(t, "c_open", <<>>, "open_transport")
            /\ phase' = "Connecting"
            /\ UNCHANGED <<session, session_context>>
    /\ UNCHANGED <<unreleased, everClosed>>
    /\ UNCHANGED notMcpVars

\* an await of connect() before the ping raises: nothing handles it
ConnectRaises(t, at, e) ==
    /\ mpc[t] = at
    /\ Ends(t, Raise(e))
    /\ phase' = "Disconnected"
    /\ UNCHANGED <<clientVars, nextCtx, unreleased, op, frame, trace, warnings,
                   phase0, everClosed, calls>>
    /\ UNCHANGED notMcpVars

\* the transport is open: ClientSession(read_stream, write_stream) is
\* constructed and `await self._session_context.__aenter__()` begins
TransportOpened(t) ==
    /\ mpc[t] = "c_open"
    /\ unreleased' = unreleased \cup {Val(frame[t].sc)}
    /\ session_context' = Some(nextCtx)
    /\ nextCtx' = nextCtx + 1
    /\ frame' = Set(frame, t, [frame[t] EXCEPT !.xc = Some(nextCtx)])
    /\ Awaits(t, "c_enter", trace[t], "enter_session")
    /\ UNCHANGED <<session, streams_context, op, warnings, phase, phase0,
                   everClosed, calls>>
    /\ UNCHANGED notMcpVars

TransportOpenFails(t, e) == ConnectRaises(t, "c_open", e)

\* self.session = <the entered ClientSession>; `await self.session.initialize()`
SessionEntered(t) ==
    /\ mpc[t] = "c_enter"
    /\ unreleased' = unreleased \cup {Val(frame[t].xc)}
    /\ session' = frame[t].xc
    /\ Awaits(t, "c_init", trace[t], "initialize")
    /\ UNCHANGED <<streams_context, session_context, nextCtx, op, frame,
                   warnings, phase, phase0, everClosed, calls>>
    /\ UNCHANGED notMcpVars

SessionEnterFails(t, e) == ConnectRaises(t, "c_enter", e)

InitializeFails(t, e) == ConnectRaises(t, "c_init", e)

PingFailure_NoCleanup(t, e) ==
    /\ Ends(t, Raise(ConnectionFailed(e)))
    /\ frame' = Set(frame, t, [frame[t] EXCEPT !.inConnect = TRUE, !.pingErr = Some(e)])
    /\ phase' = "Disconnected"
    /\ UNCHANGED <<clientVars, trace, everClosed>>

\* except Exception as e: await self.close(); raise ValueError(...)
PingFailure(t, e) ==
    CloseSession(t, trace[t],
                 [frame[t] EXCEPT !.inConnect = TRUE, !.pingErr = Some(e)])

\* the handshake is done: try: `await self.session.send_ping()`.  If the
\* session reference was cleared meanwhile the attribute access raises
\* inside the try block
Initialized(t) ==
    /\ mpc[t] = "c_init"
    /\ IF session # None
       THEN /\ Awaits(t, "c_ping", trace[t], "ping")
            /\ UNCHANGED <<clientVars, frame, phase, everClosed>>
       ELSE PingFailure(t, Err("AttributeError",
                <<"'NoneType' object has no attribute 'send_ping'">>))
    /\ UNCHANGED <<nextCtx, unreleased, op, warnings, phase0, calls>>
    /\ UNCHANGED notMcpVars

\* the ping is answered: connect() returns
Pinged(t) ==
    /\ mpc[t] = "c_ping"
    /\ Ends(t, Return(PyNone))
    /\ phase' = "Connected"
    /\ UNCHANGED <<clientVars, nextCtx, unreleased, op, frame, trace, warnings,
                   phase0, everClosed, calls>>
    /\ UNCHANGED notMcpVars

\* the ping raises
PingFails(t, e) ==
    /\ mpc[t] = "c_ping"
    /\ PingFailure(t, e)
    /\ UNCHANGED <<nextCtx, unreleased, op, warnings, phase0, calls>>
    /\ UNCHANGED notMcpVars

\* close(), called directly or by __aexit__ (`await self.close()`), up to
\* its first await
Close(t) ==
    /\ BeginCall(t, "close")
    /\ \E scoped \in BOOLEAN :
          CloseSession(t, <<>>, [NoFrame EXCEPT !.scoped = scoped])
    /\ UNCHANGED <<nextCtx, unreleased>>
    /\ UNCHANGED notMcpVars

\* print(f"Warning: Error closing session context: {e}")
Warn(t, what, e) ==
    Set(warnings, t, Append(warnings[t],
        <<"Warning: Error closing ", what, " context: ">> \o e.desc))

\* the handshake layer's __aexit__ returned
SessionExited(t) ==
    /\ mpc[t] = "x_session"
    /\ unreleased' = unreleased \ {Val(frame[t].xc)}
    /\ CloseStreams(t, trace[t], frame[t])
    /\ UNCHANGED <<nextCtx, op, warnings, phase0, calls>>
    /\ UNCHANGED notMcpVars

SessionExitFails_SkipsStreams(t, e) ==
    /\ mpc[t] = "x_session"
    /\ unreleased' = unreleased \ {Val(frame[t].xc)}
    /\ warnings' = Warn(t, "session", e)
    /\ CloseFinally(t, trace[t], frame[t])
    /\ UNCHANGED <<nextCtx, op, phase0, calls>>
    /\ UNCHANGED notMcpVars

SessionExitFails_Propagates(t, e) ==
    /\ mpc[t] = "x_session"
    /\ unreleased' = unreleased \ {Val(frame[t].xc)}
    /\ Ends(t, Raise(e))
    /\ UNCHANGED <<clientVars, trace, frame, phase, everClosed>>
    /\ UNCHANGED <<nextCtx, op, warnings, phase0, calls>>
    /\ UNCHANGED notMcpVars

\* the handshake layer's __aexit__ raised: except Exception: a warning
SessionExitFails(t, e) ==
    /\ mpc[t] = "x_session"
    /\ unreleased' = unreleased \ {Val(frame[t].xc)}
    /\ warnings' = Warn(t, "session", e)
    /\ CloseStreams(t, trace[t], frame[t])
    /\ UNCHANGED <<nextCtx, op, phase0, calls>>
    /\ UNCHANGED notMcpVars

\* the transport layer's __aexit__ returned
StreamsExited(t) ==
    /\ mpc[t] = "x_streams"
    /\ unreleased' = unreleased \ {Val(frame[t].sc)}
    /\ CloseFinally(t, trace[t], frame[t])
    /\ UNCHANGED <<nextCtx, op, warnings, phase0, calls>>
    /\ UNCHANGED notMcpVars

\* the transport layer's __aexit__ raised: except Exception: a warning
StreamsExitFails(t, e) ==
    /\ mpc[t] = "x_streams"
    /\ unreleased' = unreleased \ {Val(frame[t].sc)}
    /\ warnings' = Warn(t, "streams", e)
    /\ CloseFinally(t, trace[t], frame[t])
    /\ UNCHANGED <<nextCtx, op, phase0, calls>>
    /\ UNCHANGED notMcpVars


\* if not self.session: raise RuntimeError("MCP client not connected.")
NotConnectedGuard == session = None

\* a tool operation up to `await self.session.<request>(...)`
ToolOperation(t, name, at, request) ==
    /\ BeginCall(t, name)
    /\ IF NotConnectedGuard
       THEN /\ Ends(t, Raise(NotConnected))
            /\ trace' = Set(trace, t, <<>>)
       ELSE Awaits(t, at, <<>>, request)
    /\ frame' = Set(frame, t, NoFrame)
    /\ UNCHANGED <<clientVars, nextCtx, unreleased, phase, everClosed>>
    /\ UNCHANGED notMcpVars

\* the awaited request of a tool operation ends with outcome r, the locals
\* of the operation being fr
ToolOperationEnds(t, at, fr, r) ==
    /\ mpc[t] = at
    /\ Ends(t, r)
    /\ frame' = Set(frame, t, fr)
    /\ UNCHANGED <<clientVars, nextCtx, unreleased, op, trace, warnings,
                   phase, phase0, everClosed, calls>>
    /\ UNCHANGED notMcpVars

\* what the server lists: (name, description, inputSchema) per tool
ServerTool(n) == [name |-> n, description |-> <<"runs ", n>>, inputSchema |-> {"code"}]
ToolListings == {<<>>, <<ServerTool("execute_code")>>,
                 <<ServerTool("list_files"), ServerTool("execute_code")>>}

\* MCPToolModel(name=tool.name, description=tool.description,
\*              parameters=tool.inputSchema)
MCPToolModel(tl) ==
    [name |-> tl.name, description |-> tl.description, parameters |-> tl.inputSchema]

GetTools(t) == ToolOperation(t, "get_tools", "w_tools", "list_tools")

GetToolsReturns(t, listing) ==
    ToolOperationEnds(t, "w_tools", frame[t],
        Return(PyList([i \in 1..Len(listing) |-> MCPToolModel(listing[i])])))

\* CallToolResult.content: a list of typed content items
TextContent(x) == [type |-> "TextContent", text |-> x]
ImageContent(x) ==
    [type |-> "ImageContent", data |-> x, mimeType |-> <<"image/png">>]
CallContents == {<<>>, <<TextContent(<<"{}">>)>>, <<ImageContent(<<"png">>)>>,
                 <<TextContent(<<"first">>), TextContent(<<"second">>)>>}

\* if not tool_result.content: return None; content = tool_result.content[0];
\* TextContent -> its text, anything else -> the item itself
CallToolValue(items) ==
    IF items = <<>> THEN PyNone
    ELSE IF items[1].type = "TextContent" THEN PyStr(items[1].text)
    ELSE PyObj(items[1])

CallTool(t) == ToolOperation(t, "call_tool", "w_call", "call_tool")

CallToolReturns(t, items) ==
    ToolOperationEnds(t, "w_call", frame[t], Return(CallToolValue(items)))

\* ReadResourceResult.contents
TextResource(x) == [type |-> "TextResourceContents", text |-> x]
BlobResource(x) == [type |-> "BlobResourceContents", blob |-> x]
OtherResource == [type |-> "ResourceContents"]
ResourceUri == <<"resource://out.png">>
ResourceContents == {<<>>, <<TextResource(<<"text">>)>>, <<BlobResource(<<"aGk=">>)>>,
                     <<OtherResource>>, <<BlobResource(<<"aGk=">>), TextResource(<<"text">>)>>}

\* str(type(content)) of a content item
ClassText(item) == <<"<class 'mcp.types.", item.type, "'>">>

ResourceOutcome_EmptyIsNone(uri, items) ==
    IF items = <<>> THEN Return(PyNone)
    ELSE IF items[1].type = "TextResourceContents" THEN Return(PyStr(items[1].text))
    ELSE IF items[1].type = "BlobResourceContents" THEN Return(PyStr(items[1].blob))
    ELSE Raise(Err("ValueError",
                   <<"Unexpected content type: ">> \o ClassText(items[1])))

\* get_resource(uri) after the read: empty -> ValueError, text -> text,
\* blob -> blob, anything else -> ValueError
ResourceOutcome(uri, items) ==
    IF items = <<>>
    THEN Raise(Err("ValueError", <<"No content in resource: ">> \o uri))
    ELSE IF items[1].type = "TextResourceContents" THEN Return(PyStr(items[1].text))
    ELSE IF items[1].type = "BlobResourceContents" THEN Return(PyStr(items[1].blob))
    ELSE Raise(Err("ValueError",
                   <<"Unexpected content type: ">> \o ClassText(items[1])))

GetResource(t) == ToolOperation(t, "get_resource", "w_resource", "read_resource")

GetResourceReturns(t, items) ==
    ToolOperationEnds(t, "w_resource",
        [frame[t] EXCEPT !.contents = Some(items)],
        ResourceOutcome(ResourceUri, items))

\* the awaited server request raises: the tool operation raises it
RequestFails(t, e) ==
    /\ mpc[t] \in {"w_tools", "w_call", "w_resource"}
    /\ ToolOperationEnds(t, mpc[t], frame[t], Raise(e))

\* one tool call is not part of the session's behaviours
InitMCP ==
    /\ MCPConstructed
    /\ RagConstructed
    /\ PyConstructed
    /\ NotCreating
    /\ tool = "deployment"
    /\ call = [id |-> "call_1", name |-> "tool_a",
               arguments |-> [valid |-> TRUE, keys |-> {"prompt"}]]
    /\ tpc = "ready"
    /\ msg = None
    /\ content = <<>>
    /\ custom_content = <<>>
    /\ stage = <<>>
    /\ stageAtts = <<>>
    /\ createCalls = 0
    /\ received = <<>>
    /\ raised = None
    /\ streamStart = -1

\* the client used by one task: each call ends before the next is made
NextMCP ==
    \/ Connect("main") /\ UNCHANGED soloVars
    \/ TransportOpened("main") /\ UNCHANGED soloVars
    \/ \E e \in ServerErrors : TransportOpenFails("main", e) /\ UNCHANGED soloVars
    \/ SessionEntered("main") /\ UNCHANGED soloVars
    \/ \E e \in ServerErrors : SessionEnterFails("main", e) /\ UNCHANGED soloVars
    \/ Initialized("main") /\ UNCHANGED soloVars
    \/ \E e \in ServerErrors : InitializeFails("main", e) /\ UNCHANGED soloVars
    \/ Pinged("main") /\ UNCHANGED soloVars
    \/ \E e \in ServerErrors : PingFails("main", e) /\ UNCHANGED soloVars
    \/ Close("main") /\ UNCHANGED soloVars
    \/ SessionExited("main") /\ UNCHANGED soloVars
    \/ \E e \in ServerErrors : SessionExitFails("main", e) /\ UNCHANGED soloVars
    \/ StreamsExited("main") /\ UNCHANGED soloVars
    \/ \E e \in ServerErrors : StreamsExitFails("main", e) /\ UNCHANGED soloVars
    \/ GetTools("main") /\ UNCHANGED soloVars
    \/ \E l \in ToolListings : GetToolsReturns("main", l) /\ UNCHANGED soloVars
    \/ CallTool("main") /\ UNCHANGED soloVars
    \/ \E c \in CallContents : CallToolReturns("main", c) /\ UNCHANGED soloVars
    \/ GetResource("main") /\ UNCHANGED soloVars
    \/ \E c \in ResourceContents : GetResourceReturns("main", c) /\ UNCHANGED soloVars
    \/ \E e \in ServerErrors : RequestFails("main", e) /\ UNCHANGED soloVars

SpecMCP == InitMCP /\ [][NextMCP]_vars

\* two tasks share the client, each for one call: "main" calls connect(),
\* and "other" calls any method at any time, also while the connect() of
\* "main" is suspended
SharedTurn(t) ==
    /\ op[t] = "none" \/ mpc[t] # "idle"
    /\ t = "main" => op'[t] = "connect"
    /\ UNCHANGED soloVars

NextShared ==
    \E t \in Tasks :
        \/ Connect(t) /\ SharedTurn(t)
        \/ TransportOpened(t) /\ SharedTurn(t)
        \/ \E e \in ServerErrors : TransportOpenFails(t, e) /\ SharedTurn(t)
        \/ SessionEntered(t) /\ SharedTurn(t)
        \/ \E e \in ServerErrors : SessionEnterFails(t, e) /\ SharedTurn(t)
        \/ Initialized(t) /\ SharedTurn(t)
        \/ \E e \in ServerErrors : InitializeFails(t, e) /\ SharedTurn(t)
        \/ Pinged(t) /\ SharedTurn(t)
        \/ \E e \in ServerErrors : PingFails(t, e) /\ SharedTurn(t)
        \/ Close(t) /\ SharedTurn(t)
        \/ SessionExited(t) /\ SharedTurn(t)
        \/ \E e \in ServerErrors : SessionExitFails(t, e) /\ SharedTurn(t)
        \/ StreamsExited(t) /\ SharedTurn(t)
        \/ \E e \in ServerErrors : StreamsExitFails(t, e) /\ SharedTurn(t)
        \/ GetTools(t) /\ SharedTurn(t)
        \/ \E l \in ToolListings : GetToolsReturns(t, l) /\ SharedTurn(t)
        \/ CallTool(t) /\ SharedTurn(t)
        \/ \E c \in CallContents : CallToolReturns(t, c) /\ SharedTurn(t)
        \/ GetResource(t) /\ SharedTurn(t)
        \/ \E c \in ResourceContents : GetResourceReturns(t, c) /\ SharedTurn(t)
        \/ \E e \in ServerErrors : RequestFails(t, e) /\ SharedTurn(t)

SpecShared == InitMCP /\ [][NextShared]_vars

-----------------------------------------------------------------------------
(* PythonCodeInterpreterTool.create: connect a new client, list the tools,
   construct the tool *)

PyToolNames == {"execute_code", "list_files", "run_python"}

\* __init__: the loop keeps the last listed tool whose name is tool_name
RECURSIVE FindTool(_, _)
FindTool(mcp_tool_models, tool_name) ==
    IF mcp_tool_models = <<>> THEN None
    ELSE LET rest == FindTool(Tail(mcp_tool_models), tool_name) IN
         IF rest # None THEN rest
         ELSE IF Head(mcp_tool_models).name = tool_name
         THEN Some(Head(mcp_tool_models))
         ELSE None

\* (the message quotes tool_name in backquotes, written ' here)
ToolNotOffered(tool_name) ==
    Err("ValueError", <<"MCP with PythonCodeInterpreterTool doesn't have '",
                        tool_name, "' tool">>)

\* cls(mcp_client=..., mcp_tool_models=tools, tool_name=...): the tool that
\* holds the client, or ValueError when the server does not offer the tool
Construct(mcp_tool_models, tool_name) ==
    LET found == FindTool(mcp_tool_models, tool_name) IN
    IF found = None THEN Raise(ToolNotOffered(tool_name))
    ELSE Return([py |-> "PythonCodeInterpreterTool", v |-> Val(found)])

\* create resumes when the client method it awaits has ended: an exception
\* leaves create as it is; connect() returning lets create go on to
\* get_tools(); get_tools() returning lets it construct the tool
CreateResumes ==
    /\ UNCHANGED toolVars
    /\ IF mpc'["main"] # "idle"
       THEN UNCHANGED createVars
       ELSE
         /\ wanted' = wanted
         /\ IF result'["main"].kind = "raise"
            THEN cpc' = "done" /\ made' = result'["main"]
            ELSE IF cpc = "connecting"
            THEN cpc' = "connected" /\ made' = made
            ELSE /\ cpc' = "done"
                 /\ made' = Construct(result'["main"].value.v, wanted)

\* mcp_client = await MCPClient.create(mcp_url): a new client, and
\* connect() called on it directly
CreateConnects ==
    /\ cpc = "start"
    /\ Connect("main")
    /\ ~frame'["main"].scoped
    /\ cpc' = "connecting"
    /\ UNCHANGED <<wanted, made, toolVars>>

\* connect() goes on inside MCPClient.create
CreateConnecting ==
    /\ cpc = "connecting"
    /\ \/ TransportOpened("main")
       \/ \E e \in ServerErrors : TransportOpenFails("main", e)
       \/ SessionEntered("main")
       \/ \E e \in ServerErrors : SessionEnterFails("main", e)
       \/ Initialized("main")
       \/ \E e \in ServerErrors : InitializeFails("main", e)
       \/ Pinged("main")
       \/ \E e \in ServerErrors : PingFails("main", e)
       \/ SessionExited("main")
       \/ \E e \in ServerErrors : SessionExitFails("main", e)
       \/ StreamsExited("main")
       \/ \E e \in ServerErrors : StreamsExitFails("main", e)
    /\ CreateResumes

\* tools = await mcp_client.get_tools()
CreateListsTools ==
    /\ cpc = "connected"
    /\ GetTools("main")
    /\ cpc' = "listing"
    /\ UNCHANGED <<wanted, made, toolVars>>

\* the listing is answered or fails; on an answer create constructs the
\* tool and returns it, or the constructor raises
CreateListing ==
    /\ cpc = "listing"
    /\ \/ \E l \in ToolListings : GetToolsReturns("main", l)
       \/ \E e \in ServerErrors : RequestFails("main", e)
    /\ CreateResumes

InitCreate ==
    /\ MCPConstructed
    /\ RagConstructed
    /\ PyConstructed
    /\ tool = "deployment"
    /\ call = [id |-> "call_1", name |-> "tool_a",
               arguments |-> [valid |-> TRUE, keys |-> {"prompt"}]]
    /\ tpc = "ready"
    /\ msg = None
    /\ content = <<>>
    /\ custom_content = <<>>
    /\ stage = <<>>
    /\ stageAtts = <<>>
    /\ createCalls = 0
    /\ received = <<>>
    /\ raised = None
    /\ streamStart = -1
    /\ cpc = "start"
    /\ wanted \in PyToolNames
    /\ made = Pending

NextCreate ==
    \/ CreateConnects
    \/ CreateConnecting
    \/ CreateListsTools
    \/ CreateListing

SpecCreate == InitCreate /\ [][NextCreate]_vars

-----------------------------------------------------------------------------
(* RagTool: inputs, the document cache and the retrieval pipeline *)

MaxRagIncs == 1

\* conversation ids and document URLs are strings (sequences of their
\* pieces); ":" may occur in either
ConversationIds == {<<"a">>, <<"a", ":", "b">>}
DocumentUrls == {<<"c">>, <<"b", ":", "c">>}
Requests == {<<"q1">>, <<"q2">>}

\* function.arguments of a RAG call: malformed JSON, or an object that may
\* lack either key
RagArguments ==
    {[valid |-> FALSE, request |-> None, file_url |-> None, text |-> m] :
        m \in MalformedTexts} \cup
    {[valid |-> TRUE, request |-> r, file_url |-> u] :
        r \in {None} \cup {Some(q) : q \in Requests},
        u \in {None} \cup {Some(d) : d \in DocumentUrls}}

RagCallParams ==
    {[id |-> "call_1", name |-> "tool_a", conversation_id |-> c,
      arguments |-> a] : c \in ConversationIds, a \in RagArguments}

\* A document text is the sequence of its blocks; a block is what the text
\* splitter cuts as one chunk, and a blank block is whitespace the splitter
\* drops.  An empty text is the empty sequence.
Blank == " "
Texts == {<<>>, <<Blank>>, <<"p3", "p1">>, <<"p1", "p2", "p3", "p4">>}

\* what files.download(file_url) gives: it raises, or returns a file with
\* a name (its suffix) and a body; `parses` says whether the parser of the
\* file's format accepts the body
DocFile(suffix, parses, text) ==
    [kind |-> "file", suffix |-> suffix, parses |-> parses, text |-> text]
Downloads ==
    {[kind |-> "raise", e |-> e] : e \in TransportErrors} \cup
    {DocFile(".txt", TRUE, txt) : txt \in Texts} \cup
    {DocFile(".pdf", TRUE, <<"p3", "p1">>), DocFile(".pdf", FALSE, <<>>),
     DocFile(".csv", FALSE, <<>>), DocFile(".bin", TRUE, <<"p1", "p2", "p3", "p4">>)}

\* DialFileContentExtractor.__extract_text: .txt and unknown suffixes are
\* decoded ignoring errors; .pdf, .csv and .html/.htm go through a parser,
\* and any exception there is printed and gives ""
ExtractText(file) ==
    IF file.suffix \in {".pdf", ".csv", ".html", ".htm"} /\ ~file.parses
    THEN <<>>
    ELSE file.text

\* self.text_splitter.split_text(text_content): the chunks in document order
RECURSIVE SplitText(_)
SplitText(text) ==
    IF text = <<>> THEN <<>>
    ELSE IF Head(text) = Blank THEN SplitText(Tail(text))
    ELSE << <<Head(text)>> >> \o SplitText(Tail(text))

\* self.model.encode: the embedding vector of a string (two coordinates
\* stand for the 384 of the sentence-transformer)
Vector(s) ==
    CASE s = <<"p1">> -> <<0, 0>>
      [] s = <<"p2">> -> <<2, 0>>
      [] s = <<"p3">> -> <<0, 3>>
      [] s = <<"p4">> -> <<2, 0>>
      [] s = <<"q1">> -> <<0, 1>>
      [] s = <<"q2">> -> <<2, 2>>
      [] OTHER -> <<5, 5>>

\* embeddings = self.model.encode(chunks): one vector per chunk, in order
Encode(strings) == [i \in 1..Len(strings) |-> Vector(strings[i])]

BuildIndex_Reversed(embeddings) ==
    [i \in 1..Len(embeddings) |-> embeddings[Len(embeddings) + 1 - i]]

\* index = faiss.IndexFlatL2(384); index.add(embeddings): row i of the
\* index is embeddings[i]
BuildIndex(embeddings) == embeddings

\* squared L2 distance, the metric of IndexFlatL2
Distance(v, w) ==
    (v[1] - w[1]) * (v[1] - w[1]) + (v[2] - w[2]) * (v[2] - w[2])

Min(a, b) == IF a <= b THEN a ELSE b

TopK == 3

K_NoMin(n) == TopK

\* k = min(3, len(chunks))
K(n) == Min(TopK, n)

\* index.search(query_embedding, k)[1][0]: the labels (row numbers from 0)
\* of the k nearest rows by increasing distance, padded with -1 when the
\* index has fewer than k rows; rows at equal distance come in any order
SearchLabels(index, q, k) ==
    LET n == Len(index)
        m == Min(k, n)
        d(l) == Distance(index[l + 1], q)
    IN {r \in [1..k -> -1..(n - 1)] :
          /\ \A i \in 1..m : r[i] >= 0
          /\ \A i \in (m + 1)..k : r[i] = -1
          /\ \A i, j \in 1..m : i < j => r[i] # r[j] /\ d(r[i]) <= d(r[j])
          /\ \A l \in 0..(n - 1) :
                (\A i \in 1..m : r[i] # l) => \A i \in 1..m : d(r[i]) <= d(l)}

\* chunks[idx] with Python's indexing: a negative idx counts from the end
Item(list, idx) ==
    IF idx >= 0 THEN list[idx + 1] ELSE list[Len(list) + 1 + idx]

\* retrieved_chunks = [chunks[idx] for idx in indices[0]]
Retrieved(chunks, labels) ==
    [i \in 1..Len(labels) |-> Item(chunks, labels[i])]

\* "\n\n".join(chunks)
RECURSIVE JoinChunks(_)
JoinChunks(chunks) ==
    IF chunks = <<>> THEN <<>>
    ELSE IF Len(chunks) = 1 THEN Head(chunks)
    ELSE Head(chunks) \o <<"\n\n">> \o JoinChunks(Tail(chunks))

\* cache_document_key = f"{tool_call_params.conversation_id}:{file_url}"
CacheKey(conversation_id, file_url) ==
    conversation_id \o <<":">> \o file_url

\* DocumentCache.get(key): the stored (index, chunks) pair, or None
DocumentCacheGet(cache, key) ==
    IF key \in DOMAIN cache THEN Some(cache[key]) ELSE None

\* DocumentCache.set(key, index, chunks): the entry of key is replaced
DocumentCacheSet(cache, key, index, chunks) ==
    [k \in (DOMAIN cache) \cup {key} |->
        IF k = key THEN <<index, chunks>> ELSE cache[k]]

CacheHit_Never(cached_data) == FALSE

\* if cached_data:
CacheHit(cached_data) == cached_data # None

Store_Skipped(cache, key, index, chunks) == cache

\* self.document_cache.set(cache_document_key, index, chunks)
Store(cache, key, index, chunks) == DocumentCacheSet(cache, key, index, chunks)

\* np.array(encode([])) has no second axis: index.add raises on it
IndexShapeError ==
    Err("ValueError", <<"not enough values to unpack (expected 2, got 1)">>)

\* the informational result on a document with no text
RagNotFound == <<"Error: File content not found.">>

\* __augmentation: f"CONTEXT:\n{joined_chunks}\n---\nREQUEST: {request}"
Augmentation(request, joined_chunks) ==
    <<"CONTEXT:\n">> \o joined_chunks \o <<"\n---\nREQUEST: ">> \o request

\* the three stage lines every RAG call starts with (in the stage texts
\* "\n" also stands for "\n\r" and [fence] for the three backquotes of a
\* code fence)
RagHeaderOf(request, file_url) ==
    << <<"## Request arguments: \n">>,
       <<"**Request**: ">> \o request \o <<"\n">>,
       <<"**Document URL**: ">> \o file_url \o <<"\n">> >>

\* the stage lines that echo the augmented prompt
RagRequestLines(prompt) ==
    << <<"## RAG Request: \n">>,
       <<"[fence]text\n">> \o prompt \o <<"\n[fence]\n">>,
       <<"## Response: \n">> >>

-----------------------------------------------------------------------------
(* RagTool._execute under BaseTool.execute, one call per task at a time *)

\* how the part of _execute that runs without suspension ended
RagRaised(e) == [kind |-> "raise", e |-> e]
RagReturned(text) == [kind |-> "return", text |-> text]
RagAwaits == [kind |-> "await"]

\* the call started last, as the next call finds it: its conversation, URL
\* and request, and whether it held a cache entry (it hit, or it stored)
CallRecord(c, held) ==
    Some([conversation_id |-> c.conversation_id,
          file_url |-> Val(c.arguments.file_url),
          request |-> Val(c.arguments.request),
          held |-> held])

\* how _execute leaves the part that runs up to its first await (or to its
\* end): what it appended to the stage, what it asked of its collaborators,
\* its locals, the cache and the writes made to it, the record of the call,
\* and whether it awaits, returned or raised
RagEnd(stg, work, loc, cache, writes, last, end) ==
    [stage |-> stg, work |-> work, loc |-> loc, cache |-> cache,
     writes |-> writes, last |-> last, end |-> end]

\* the message of execute when _execute has come to `end`
RagMessage(c, end) ==
    CASE end.kind = "raise" -> Caught(NewToolMessage(c), end.e)
      [] end.kind = "return" -> Returned(NewToolMessage(c), TextResult(end.text))
      [] OTHER -> NewToolMessage(c)

\* the state in which task t leaves the part of execute that runs up to the
\* first await of _execute (or to its end)
RagSegment(t, c, o) ==
    /\ ragCalls' = ragCalls + 1
    /\ rcall' = Set(rcall, t, c)
    /\ rstage' = Set(rstage, t, o.stage)
    /\ rwork' = Set(rwork, t, o.work)
    /\ rloc' = Set(rloc, t,
          [o.loc EXCEPT !.pred = lastCall,
                        !.during = {u \in Tasks :
                                      rpc[u] \in {"creating", "streaming"}}])
    /\ rrecv' = Set(rrecv, t, 0)
    /\ document_cache' = o.cache
    /\ cacheWrites' = o.writes
    /\ lastCall' = o.last
    /\ rmsg' = Set(rmsg, t, Some(RagMessage(c, o.end)))
    /\ rraised' = Set(rraised, t,
          IF o.end.kind = "raise" THEN Some(o.end.e) ELSE None)
    /\ rpc' = Set(rpc, t, IF o.end.kind = "await" THEN "creating" ELSE "done")
    /\ UNCHANGED notRagVars

\* _execute from the query step: embed the request, search, build the
\* augmented prompt, echo it, and issue the completion request (one end
\* for each order in which the search may return rows at equal distance)
RagQuery(t, c, head, work, hit, text, index, chunks, cache, writes) ==
    LET request == Val(c.arguments.request)
        query_embedding == Vector(request)
        k == K(Len(chunks))
    IN { LET retrieved_chunks == Retrieved(chunks, labels)
             prompt == Augmentation(request, JoinChunks(retrieved_chunks))
         IN RagEnd(head \o RagRequestLines(prompt),
                work \o <<"encode_query", "search", "create">>,
                [NoLocals EXCEPT !.hit = hit, !.text = text, !.index = index,
                                 !.chunks = chunks, !.labels = labels,
                                 !.prompt = prompt],
                cache, writes, CallRecord(c, TRUE), RagAwaits)
         : labels \in SearchLabels(index, query_embedding, k) }

\* _execute from `chunks = self.text_splitter.split_text(text_content)`:
\* split, embed, index, store, then the query step
RagEmbed(t, c, key, head, text_content) ==
    LET chunks == SplitText(text_content)
        embeddings == Encode(chunks)
        work == <<"get", "download", "extract", "split", "encode_chunks",
                  "index_add">>
    IN IF chunks = <<>>
       THEN {RagEnd(head, work,
                [NoLocals EXCEPT !.text = Some(text_content)],
                document_cache, cacheWrites, CallRecord(c, FALSE),
                RagRaised(IndexShapeError))}
       ELSE LET index == BuildIndex(embeddings) IN
            RagQuery(t, c, head, Append(work, "set"), FALSE,
                Some(text_content), index, chunks,
                Store(document_cache, key, index, chunks),
                Append(cacheWrites,
                    [key |-> key, conversation_id |-> c.conversation_id,
                     file_url |-> Val(c.arguments.file_url), task |-> t]))

RagMiss_NoEmptyCheck(t, c, key, head, dl) ==
    IF dl.kind = "raise"
    THEN {RagEnd(head, <<"get", "download">>, NoLocals,
             document_cache, cacheWrites, CallRecord(c, FALSE), RagRaised(dl.e))}
    ELSE RagEmbed(t, c, key, head, ExtractText(dl))

\* _execute on a cache miss: extract, split, embed, index, store
RagMiss(t, c, key, head, dl) ==
    IF dl.kind = "raise"
    THEN {RagEnd(head, <<"get", "download">>, NoLocals,
             document_cache, cacheWrites, CallRecord(c, FALSE), RagRaised(dl.e))}
    ELSE LET text_content == ExtractText(dl) IN
         IF text_content = <<>>
         THEN {RagEnd(head \o << <<"## Response: \n">>, RagNotFound \o <<"\n">> >>,
                  <<"get", "download", "extract">>,
                  [NoLocals EXCEPT !.text = Some(text_content)],
                  document_cache, cacheWrites, CallRecord(c, FALSE),
                  RagReturned(RagNotFound))}
         ELSE RagEmbed(t, c, key, head, text_content)

\* RagTool._execute called by task t, up to `await ...completions.create(...)`:
\* nothing in it suspends, so it is one step of the task.  The set holds the
\* ways it can end
RagExecute(t, c, dl) ==
    LET a == c.arguments
        early(e) == {RagEnd(<<>>, <<>>, NoLocals, document_cache, cacheWrites,
                            None, RagRaised(e))}
    IN
    IF ~a.valid THEN early(JsonError(a.text))
    ELSE IF a.request = None THEN early(KeyErr("request"))
    ELSE IF a.file_url = None THEN early(KeyErr("file_url"))
    ELSE LET request == Val(a.request)
             file_url == Val(a.file_url)
             head == RagHeaderOf(request, file_url)
             cache_document_key == CacheKey(c.conversation_id, file_url)
             cached_data == DocumentCacheGet(document_cache, cache_document_key)
         IN IF CacheHit(cached_data)
            THEN RagQuery(t, c, head, <<"get">>, TRUE, None,
                     Val(cached_data)[1], Val(cached_data)[2],
                     document_cache, cacheWrites)
            ELSE RagMiss(t, c, cache_document_key, head, dl)

\* a task calls the tool: execute(tool_call_params).  Each task makes one
\* call; "main" names the task whose call starts first, and the call of
\* "other" starts while that call is suspended or after it has ended
RagStart(t) ==
    /\ rpc[t] = "idle"
    /\ t = "main" \/ rpc["main"] # "idle"
    /\ \E c \in RagCallParams, dl \in Downloads :
          \E o \in RagExecute(t, c, dl) : RagSegment(t, c, o)

ragShared == <<document_cache, cacheWrites, lastCall, ragCalls>>

\* the completion request returns the stream: content = ''
RagCreateReturns(t) ==
    /\ rpc[t] = "creating"
    /\ rpc' = Set(rpc, t, "streaming")
    /\ rloc' = Set(rloc, t, [rloc[t] EXCEPT !.content = <<>>])
    /\ UNCHANGED <<ragShared, rcall, rwork, rstage, rmsg, rraised, rrecv>>
    /\ UNCHANGED notRagVars

\* the exception e leaves _execute at an await and is caught by execute
RagRaises(t, e) ==
    /\ rmsg' = Set(rmsg, t, Some(Caught(Val(rmsg[t]), e)))
    /\ rraised' = Set(rraised, t, Some(e))
    /\ rpc' = Set(rpc, t, "done")
    /\ UNCHANGED <<ragShared, rcall, rloc, rwork, rstage, rrecv>>
    /\ UNCHANGED notRagVars

\* the completion request raises
RagCreateFails(t, e) ==
    /\ rpc[t] = "creating"
    /\ RagRaises(t, e)

RagIncrements == {
    Chunk(None),
    Chunk(Some(<<Choice(Some(Delta(Some(<<"a", "b">>), CC(Some(<<AttA>>)))))>>))
}

\* async for chunk in chunks: one increment arrives; its text, if any, goes
\* to the stage and to content
RagStreamNext(t, inc) ==
    /\ rpc[t] = "streaming"
    /\ rrecv[t] < MaxRagIncs
    /\ LET txt == TextOf(DeltaOf(inc))
       IN /\ rstage' = Set(rstage, t, AppendContent(rstage[t], txt))
          /\ rloc' = Set(rloc, t,
                [rloc[t] EXCEPT !.content = Accumulate(rloc[t].content, txt)])
    /\ rrecv' = Set(rrecv, t, rrecv[t] + 1)
    /\ UNCHANGED <<ragShared, rpc, rcall, rwork, rmsg, rraised>>
    /\ UNCHANGED notRagVars

\* the stream ends: _execute returns content
RagStreamEnds(t) ==
    /\ rpc[t] = "streaming"
    /\ rmsg' = Set(rmsg, t,
          Some(Returned(Val(rmsg[t]), TextResult(rloc[t].content))))
    /\ rpc' = Set(rpc, t, "done")
    /\ UNCHANGED <<ragShared, rcall, rloc, rwork, rstage, rraised, rrecv>>
    /\ UNCHANGED notRagVars

\* the stream raises while the loop waits for the next increment
RagStreamFails(t, e) ==
    /\ rpc[t] = "streaming"
    /\ RagRaises(t, e)

InitRag ==
    /\ RagConstructed
    /\ PyConstructed
    /\ NotCreating
    /\ MCPConstructed
    /\ tool = "rag"
    /\ call = [id |-> "call_1", name |-> "tool_a",
               arguments |-> [valid |-> TRUE, keys |-> {"request", "file_url"}]]
    /\ tpc = "ready"
    /\ msg = None
    /\ content = <<>>
    /\ custom_content = <<>>
    /\ stage = <<>>
    /\ stageAtts = <<>>
    /\ createCalls = 0
    /\ received = <<>>
    /\ raised = None
    /\ streamStart = -1

\* the calls of the tasks interleave where one of them awaits
NextRag ==
    \E t \in Tasks :
        \/ RagStart(t)
        \/ RagCreateReturns(t)
        \/ \E e \in TransportErrors : RagCreateFails(t, e)
        \/ \E inc \in RagIncrements : RagStreamNext(t, inc)
        \/ RagStreamEnds(t)
        \/ \E e \in TransportErrors : RagStreamFails(t, e)

SpecRag == InitRag /\ [][NextRag]_vars

-----------------------------------------------------------------------------
(* One tool call through BaseTool.execute: the deployment tool, the RAG    *)
(* tool and the MCP tool                                                    *)

\* execute -> RagTool._execute up to `await ...completions.create(...)`,
\* called by the one task of this call
RagBegin ==
    /\ tool = "rag"
    /\ tpc = "ready"
    /\ \E dl \in Downloads :
         \E o \in RagExecute("main", call, dl) :
           LET m == NewToolMessage(call) IN
           /\ stage' = stage \o o.stage
           /\ document_cache' = o.cache
           /\ cacheWrites' = o.writes
           /\ lastCall' = o.last
           /\ ragCalls' = ragCalls + 1
           /\ CASE o.end.kind = "raise" ->
                     ExecuteRaises(m, o.end.e) /\ UNCHANGED createCalls
                [] o.end.kind = "return" ->
                     /\ ExecuteReturns(m, TextResult(o.end.text))
                     /\ UNCHANGED createCalls
                [] OTHER ->
                     /\ msg' = Some(m)
                     /\ tpc' = "creating"
                     /\ createCalls' = createCalls + 1
                     /\ UNCHANGED raised
    /\ UNCHANGED <<tool, call, content, custom_content, stageAtts, received, streamStart>>
    /\ UNCHANGED <<rpc, rcall, rloc, rwork, rstage, rmsg, rraised, rrecv>>
    /\ UNCHANGED <<mcpVars, pyVars, createVars>>

\* str(x) of what call_tool returned; for a content item the text pydantic
\* gives a model, its fields in order
StrOf(returned) ==
    CASE returned.py = "None" -> <<"None">>
      [] returned.py = "str" -> returned.v
      [] OTHER -> <<"type='image' data='">> \o returned.v.data \o <<"' mimeType='">>
                  \o returned.v.mimeType \o <<"' annotations=None meta=None">>

\* the argument of stage.append_content(content): a text, or the value
\* itself when call_tool returned no text
StageArgument(returned) ==
    IF returned.py = "str" THEN returned.v ELSE returned

\* execute -> MCPTool._execute up to the await inside
\* self._client.call_tool(self.name, arguments); call_tool raises at once
\* when the client is not connected
McpBegin ==
    /\ tool = "mcp"
    /\ tpc = "ready"
    /\ LET m == NewToolMessage(call) IN
       IF ~call.arguments.valid
       THEN /\ ExecuteRaises(m, JsonError(call.arguments.text))
            /\ UNCHANGED <<mcpVars, notMcpVars>>
       ELSE /\ CallTool("main")
            /\ IF mpc'["main"] = "idle"
               THEN ExecuteRaises(m, result'["main"].error)
               ELSE /\ msg' = Some(m)
                    /\ tpc' = "calling"
                    /\ UNCHANGED raised
    /\ UNCHANGED <<tool, call, streamLocals, createCalls>>
    /\ UNCHANGED createVars

\* call_tool returns: stage.append_content(content); return content, which
\* execute turns to text
McpReturns(items) ==
    /\ tool = "mcp"
    /\ tpc = "calling"
    /\ CallToolReturns("main", items)
    /\ stage' = Append(stage, StageArgument(CallToolValue(items)))
    /\ ExecuteReturns(Val(msg), TextResult(StrOf(CallToolValue(items))))
    /\ UNCHANGED <<tool, call, content, custom_content, stageAtts, received,
                   streamStart, createCalls>>
    /\ UNCHANGED createVars

\* call_tool raises what the server request raised
McpFails(e) ==
    /\ tool = "mcp"
    /\ tpc = "calling"
    /\ RequestFails("main", e)
    /\ ExecuteRaises(Val(msg), e)
    /\ UNCHANGED <<tool, call, streamLocals, createCalls>>
    /\ UNCHANGED createVars

\* the client after `await MCPClient.create(url)` has returned it: the state
\* task "main" leaves when its connect() has run to its end
MCPConnected ==
    /\ session = Some(2)
    /\ streams_context = Some(1)
    /\ session_context = Some(2)
    /\ nextCtx = 3
    /\ unreleased = {1, 2}
    /\ mpc = [t \in Tasks |-> "idle"]
    /\ op = [t \in Tasks |-> IF t = "main" THEN "connect" ELSE "none"]
    /\ frame = [t \in Tasks |->
                  IF t = "main" THEN [NoFrame EXCEPT !.sc = Some(1), !.xc = Some(2)]
                  ELSE NoFrame]
    /\ trace = [t \in Tasks |->
                  IF t = "main"
                  THEN <<"open_transport", "enter_session", "initialize", "ping">>
                  ELSE <<>>]
    /\ result = [t \in Tasks |-> IF t = "main" THEN Return(PyNone) ELSE Pending]
    /\ warnings = [t \in Tasks |-> <<>>]
    /\ phase = "Connected"
    /\ phase0 = [t \in Tasks |-> "Disconnected"]
    /\ everClosed = FALSE
    /\ calls = 1

\* tool_call_params of a call of tool t
ToolCalls(t) ==
    IF t = "rag"
    THEN {[id |-> i, name |-> n, conversation_id |-> <<"a">>, arguments |-> a] :
             i \in CallIds, n \in ToolNames, a \in RagArguments}
    ELSE {[id |-> i, name |-> n, arguments |-> a] :
             i \in CallIds, n \in ToolNames, a \in Arguments(t)}

\* an MCP tool holds a client that was connected when the tool was made, or
\* one that never was; the other tools hold no client
InitTool ==
    /\ tool \in Tools
    /\ call \in ToolCalls(tool)
    /\ tpc = "ready"
    /\ msg = None
    /\ content = <<>>
    /\ custom_content = <<>>
    /\ stage = <<>>
    /\ stageAtts = <<>>
    /\ createCalls = 0
    /\ received = <<>>
    /\ raised = None
    /\ streamStart = -1
    /\ MCPConstructed \/ (tool = "mcp" /\ MCPConnected)
    /\ RagConstructed
    /\ PyConstructed
    /\ NotCreating

NextTool ==
    \/ DeploymentBegin
    \/ RagBegin
    \/ McpBegin
    \/ \E items \in CallContents : McpReturns(items)
    \/ \E e \in ServerErrors : McpFails(e)
    \/ CreateReturns
    \/ \E e \in TransportErrors : CreateFails(e)
    \/ \E inc \in Increments : StreamNext(inc)
    \/ StreamEnds
    \/ \E e \in TransportErrors : StreamFails(e)

SpecTool == InitTool /\ [][NextTool]_vars

-----------------------------------------------------------------------------
(* PythonCodeInterpreterTool: inputs and values *)

MaxFrags == 2
MaxFiles == 2

CodeText == <<"print(1)">>

\* function.arguments of a code-execution call: malformed JSON, or an object
\* with or without "code" and "session_id"
PyArguments ==
    {[valid |-> FALSE, code |-> None, session_id |-> None, text |-> m] :
        m \in MalformedTexts} \cup
    {[valid |-> TRUE, code |-> c, session_id |-> sid] :
        c \in {None, Some(CodeText)}, sid \in {None, Some(<<"s1">>)}}

PyCallParams == {[id |-> "call_1", name |-> "tool_a", arguments |-> a] :
                    a \in PyArguments}

\* an output fragment of n characters; the character at a place depends on
\* the place
Letters == <<"a", "b", "c", "d", "e", "f", "g">>
Fragment(n) == [i \in 1..n |-> Letters[(i % 7) + 1]]
Fragments == {Fragment(0), Fragment(199), Fragment(200), Fragment(201),
              Fragment(300)}

\* a produced file: name, mime_type, uri.  A name is a path text, cut at its
\* slashes (a piece holds no slash); a mime type is cut after its first
\* slash
TextFile == [name |-> <<"out.txt">>, mime_type |-> <<"text/", "plain">>,
             uri |-> <<"resource://out.txt">>]
ImageFile == [name |-> <<"plot.png">>, mime_type |-> <<"image/", "png">>,
              uri |-> <<"resource://plot.png">>]
HtmlFile == [name |-> <<"/", "abs", "/", "/", ".", "/", "page.html">>,
             mime_type |-> <<"text/", "html">>,
             uri |-> <<"resource://page.html">>]
Files == {TextFile, ImageFile, HtmlFile}

\* _ExecutionResult: the output fragments and the produced files
ExecutionResult(output, files) == [output |-> output, files |-> files]
ExecutionResults ==
    {ExecutionResult(o, f) :
        o \in UNION {[1..n -> Fragments] : n \in 0..MaxFrags},
        f \in UNION {[1..n -> Files] : n \in 0..MaxFiles}}

\* a text the server sends, given by what json.loads and model_validate
\* make of it; a text that is not JSON, or is JSON of another shape, is
\* given as it is
ServerText(parses, fits, value) ==
    [parses |-> parses, fits |-> fits, value |-> value]
OtherShape == "{\"foo\": 1}"
ServerTexts ==
    {[parses |-> FALSE, fits |-> FALSE, value |-> ExecutionResult(<<>>, <<>>),
      text |-> m] : m \in MalformedTexts} \cup
    {[parses |-> TRUE, fits |-> FALSE, value |-> ExecutionResult(<<>>, <<>>),
      text |-> OtherShape]} \cup
    {ServerText(TRUE, TRUE, r) : r \in ExecutionResults}

\* what call_tool and get_resource raise: the client is not connected, or
\* the server request fails
ClientErrors == {NotConnected} \cup ServerErrors

\* CallToolResult.content of the code-execution tool
PyCallContents ==
    {<<>>, <<ImageContent(<<"png">>)>>} \cup
    {<<TextContent(txt)>> : txt \in ServerTexts}

\* type(x).__name__ of what call_tool returned
TypeName(returned) ==
    CASE returned.py = "None" -> "NoneType"
      [] returned.py = "str" -> "str"
      [] OTHER -> returned.v.type

\* json.loads(content) on a content that is no text
JsonTypeError(returned) ==
    Err("TypeError", <<"the JSON object must be str, bytes or bytearray, not ",
                       TypeName(returned)>>)

\* _ExecutionResult.model_validate on a JSON object that has neither
\* member: one paragraph per missing field
FieldRequired(field, input) ==
    <<"\n", field, "\n  Field required [type=missing, input_value=", input,
      ", input_type=dict]\n    For further information visit ",
      "https://errors.pydantic.dev/2.13/v/missing">>
ValidationError(text) ==
    Err("ValidationError",
        <<"2 validation errors for _ExecutionResult">>
        \o FieldRequired("output", "{'foo': 1}")
        \o FieldRequired("files", "{'foo': 1}"))

\* json.loads(content) then _ExecutionResult.model_validate(...)
ParseResult(returned) ==
    IF returned.py # "str" THEN Raise(JsonTypeError(returned))
    ELSE IF ~returned.v.parses THEN Raise(JsonError(returned.v.text))
    ELSE IF ~returned.v.fits THEN Raise(ValidationError(returned.v.text))
    ELSE Return(returned.v.value)

\* ReadResourceResult.contents of a produced file
PyResourceContents ==
    {<<>>, <<TextResource(<<"text">>)>>, <<BlobResource(<<"aGk=">>)>>,
     <<BlobResource(<<"aGk">>)>>, <<BlobResource(<<"not base64">>)>>}

\* mime_type.startswith('text/') or mime_type in ['application/json',
\* 'application/xml']
IsTextMime(mime_type) ==
    \/ IsPrefix(<<"text/">>, mime_type)
    \/ mime_type \in {<<"application/", "json">>, <<"application/", "xml">>}

\* binascii.Error of base64.b64decode
Base64Error(desc) == Err("Error", desc)

\* base64.b64decode(resource): characters outside the alphabet are dropped,
\* the rest is decoded; it raises when the padding is short or when the
\* number of data characters is 1 more than a multiple of 4
B64Decode(resource) ==
    CASE resource = <<"aGk=">> -> Return(<<"hi">>)
      [] resource = <<"text">> -> Return(<<"\\xb5\\xecm">>)
      [] resource = <<"aGk">> -> Raise(Base64Error(<<"Incorrect padding">>))
      [] resource = <<"not base64">> ->
           Raise(Base64Error(<<"Invalid base64-encoded string: number of data ",
                               "characters (9) cannot be 1 more than a ",
                               "multiple of 4">>))

\* file_data: resource.encode('utf-8') for a text file, else
\* base64.b64decode(resource)
FileData(mime_type, resource) ==
    IF IsTextMime(mime_type) THEN Return(<<"utf-8:">> \o resource)
    ELSE B64Decode(resource)

\* files_home = dial_client.my_appdata_home(): a relative path, by its parts
FilesHome == <<"bucket", "appdata">>

\* the root of a path text: "/" when it starts with slashes, "//" when with
\* exactly two, "" when it is relative
RECURSIVE LeadingSlashes(_)
LeadingSlashes(text) ==
    IF text # <<>> /\ Head(text) = "/" THEN 1 + LeadingSlashes(Tail(text))
    ELSE 0
Root(text) ==
    LET n == LeadingSlashes(text) IN
    IF n = 0 THEN "" ELSE IF n = 2 THEN "//" ELSE "/"

\* the parts of a path text: its pieces between slashes, empty pieces and
\* "." dropped (".." stays)
RECURSIVE Parts(_)
Parts(text) ==
    IF text = <<>> THEN <<>>
    ELSE IF Head(text) \in {"/", ".", ""} THEN Parts(Tail(text))
    ELSE <<Head(text)>> \o Parts(Tail(text))

\* as_posix() of a path with these parts
RECURSIVE Slashed(_)
Slashed(parts) ==
    IF Len(parts) <= 1 THEN parts
    ELSE <<Head(parts), "/">> \o Slashed(Tail(parts))

\* (files_home / name).as_posix(): an absolute name replaces the home
JoinPath(home, name) ==
    IF Root(name) # "" THEN <<Root(name)>> \o Slashed(Parts(name))
    ELSE Slashed(home \o Parts(name))

\* url = f"files/{(files_home / name).as_posix()}"
UploadUrl(name) == <<"files/">> \o JoinPath(FilesHome, name)

\* Attachment(url=url, type=mime_type, title=name)
Attachment(file) ==
    [url |-> UploadUrl(file.name), type |-> file.mime_type, title |-> file.name]

AddAttachment_Front(atts, a) == <<a>> \o atts

\* stage.add_attachment(attachment); choice.add_attachment(attachment)
AddAttachment(atts, a) == Append(atts, a)

OutputLimit == 200

Truncate_Last(s) ==
    SubSeq(s, Len(s) - Min(OutputLimit, Len(s)) + 1, Len(s))

\* output[:200]
Truncate(s) == SubSeq(s, 1, Min(OutputLimit, Len(s)))

\* new_output = [output[:200] for output in execution_result.output],
\* under `if execution_result.output`
NewOutput(output) ==
    IF output = <<>> THEN output
    ELSE [i \in 1..Len(output) |-> Truncate(output[i])]

\* JSON text of a string (the strings here need no escape)
JsonString(str) == <<"\"">> \o str \o <<"\"">>

\* the line break and indentation before a member at depth `level`; nothing
\* in the compact form (indent = None)
Pad(indent, level) ==
    IF indent = None THEN <<>>
    ELSE <<"\n">> \o [i \in 1..(Val(indent) * level) |-> " "]

\* the members of an array or object at depth `level`, commas between them
RECURSIVE JsonItems(_, _, _)
JsonItems(items, indent, level) ==
    IF items = <<>> THEN <<>>
    ELSE Pad(indent, level) \o Head(items) \o
         (IF Len(items) = 1 THEN <<>> ELSE <<",">>) \o
         JsonItems(Tail(items), indent, level)

\* an array or object that is itself at depth `level`
JsonNest(open, items, close, indent, level) ==
    IF items = <<>> THEN <<open, close>>
    ELSE <<open>> \o JsonItems(items, indent, level + 1) \o
         Pad(indent, level) \o <<close>>

JsonMember(key, value, indent) ==
    JsonString(<<key>>) \o (IF indent = None THEN <<":">> ELSE <<": ">>) \o value

\* execution_result.model_dump_json(indent=indent)
ModelDumpJson(r, indent) ==
    JsonNest("{",
        << JsonMember("output",
               JsonNest("[", [i \in 1..Len(r.output) |-> JsonString(r.output[i])],
                        "]", indent, 1), indent),
           JsonMember("files",
               JsonNest("[",
                   [i \in 1..Len(r.files) |->
                      JsonNest("{",
                          << JsonMember("name", JsonString(r.files[i].name), indent),
                             JsonMember("mime_type",
                                 JsonString(r.files[i].mime_type), indent),
                             JsonMember("uri", JsonString(r.files[i].uri), indent) >>,
                          "}", indent, 2)],
                   "]", indent, 1), indent) >>,
        "}", indent, 0)

\* the stage lines up to "## Response"
PyHeader(code, session_id) ==
    << <<"[fence]python\n">> \o code \o <<"\n[fence]\n">>,
       IF Truthy(session_id)
       THEN <<"**session_id**: ">> \o Val(session_id) \o <<"\n">>
       ELSE <<"New session will be created\n">>,
       <<"## Response: \n">> >>

-----------------------------------------------------------------------------
(* PythonCodeInterpreterTool._execute under BaseTool.execute *)

Event(what, i) == [what |-> what, file |-> i]

\* the exception e leaves _execute and is caught by execute
PyRaises(e) ==
    /\ pyMsg' = Some(Caught(NewToolMessage(pycall), e))
    /\ pyRaised' = Some(e)
    /\ pypc' = "done"

\* execute -> _execute up to `await self._mcp_client.call_tool(...)`
PyBegin ==
    /\ pypc = "ready"
    /\ LET a == pycall.arguments IN
       IF ~a.valid
       THEN PyRaises(JsonError(a.text)) /\ UNCHANGED pyStage
       ELSE IF a.code = None
       THEN /\ PyRaises(KeyErr("code"))
            /\ pyStage' = << <<"## Request arguments: \n">> >>
       ELSE /\ pyStage' = << <<"## Request arguments: \n">> >>
                             \o PyHeader(Val(a.code), a.session_id)
            /\ pypc' = "calling"
            /\ UNCHANGED <<pyMsg, pyRaised>>
    /\ UNCHANGED <<pycall, pyExec, pyOut, pyIdx, pyStageAtts, pyChoiceAtts, pyEvents>>
    /\ UNCHANGED notPyVars

\* _execute from `if execution_result.output:` to its return: the fragments
\* are cut, the result is echoed on the stage and returned as JSON text
PyFinish(r) ==
    LET cut == [r EXCEPT !.output = NewOutput(r.output)] IN
    /\ pyOut' = cut.output
    /\ pyStage' = Append(pyStage,
          <<"[fence]json\n">> \o ModelDumpJson(cut, Some(2)) \o <<"\n[fence]\n">>)
    /\ pyMsg' = Some(Returned(NewToolMessage(pycall),
                              TextResult(ModelDumpJson(cut, None))))
    /\ pyRaised' = None
    /\ pypc' = "done"

\* call_tool raises
PyCallFails(e) ==
    /\ pypc = "calling"
    /\ PyRaises(e)
    /\ UNCHANGED <<pycall, pyExec, pyOut, pyIdx, pyStage, pyStageAtts, pyChoiceAtts,
                   pyEvents>>
    /\ UNCHANGED notPyVars

\* call_tool returns the first item of the result: it is parsed and
\* validated; with files the loop starts and awaits the first resource,
\* without files the call ends
PyCallReturns(items) ==
    /\ pypc = "calling"
    /\ LET parsed == ParseResult(CallToolValue(items)) IN
       IF parsed.kind = "raise"
       THEN /\ PyRaises(parsed.error)
            /\ UNCHANGED <<pyExec, pyOut, pyIdx, pyStage>>
       ELSE LET r == parsed.value IN
            /\ pyExec' = Some(r)
            /\ IF r.files # <<>>
               THEN /\ pyIdx' = 1
                    /\ pypc' = "reading"
                    /\ UNCHANGED <<pyOut, pyStage, pyMsg, pyRaised>>
               ELSE /\ PyFinish(r)
                    /\ UNCHANGED pyIdx
    /\ UNCHANGED <<pycall, pyStageAtts, pyChoiceAtts, pyEvents>>
    /\ UNCHANGED notPyVars

\* get_resource raises
PyResourceFails(e) ==
    /\ pypc = "reading"
    /\ PyRaises(e)
    /\ UNCHANGED <<pycall, pyExec, pyOut, pyIdx, pyStage, pyStageAtts, pyChoiceAtts,
                   pyEvents>>
    /\ UNCHANGED notPyVars

\* the server answers the read of the resource of file pyIdx: get_resource
\* returns its text or blob, or raises on any other answer; the resource is
\* decoded and uploaded, and the attachment is added to the stage
PyResourceReturns(items, uploads) ==
    /\ pypc = "reading"
    /\ LET file == Val(pyExec).files[pyIdx]
           resource == ResourceOutcome(file.uri, items)
           file_data == IF resource.kind = "raise" THEN resource
                        ELSE FileData(file.mime_type, resource.value.v)
           read == IF resource.kind = "raise" THEN pyEvents
                   ELSE Append(pyEvents, Event("read", pyIdx))
       IN IF file_data.kind = "raise"
          THEN /\ PyRaises(file_data.error)
               /\ pyEvents' = read
               /\ UNCHANGED pyStageAtts
          ELSE IF ~uploads
          THEN /\ \E e \in TransportErrors : PyRaises(e)
               /\ pyEvents' = read
               /\ UNCHANGED pyStageAtts
          ELSE /\ pyEvents' = read \o <<Event("upload", pyIdx), Event("stage", pyIdx)>>
               /\ pyStageAtts' = AddAttachment(pyStageAtts, Attachment(file))
               /\ pypc' = "staged"
               /\ UNCHANGED <<pyMsg, pyRaised>>
    /\ UNCHANGED <<pycall, pyExec, pyOut, pyIdx, pyStage, pyChoiceAtts>>
    /\ UNCHANGED notPyVars

\* the attachment is added to the choice; the loop goes to the next file and
\* awaits its resource, or, after the last file, the call ends
PyChoiceAdd ==
    /\ pypc = "staged"
    /\ LET r == Val(pyExec) IN
       /\ pyChoiceAtts' = AddAttachment(pyChoiceAtts, Attachment(r.files[pyIdx]))
       /\ pyEvents' = Append(pyEvents, Event("choice", pyIdx))
       /\ IF pyIdx < Len(r.files)
          THEN /\ pyIdx' = pyIdx + 1
               /\ pypc' = "reading"
               /\ UNCHANGED <<pyOut, pyStage, pyMsg, pyRaised>>
          ELSE /\ PyFinish(r)
               /\ UNCHANGED pyIdx
    /\ UNCHANGED <<pycall, pyExec, pyStageAtts>>
    /\ UNCHANGED notPyVars

InitPy ==
    /\ MCPConstructed
    /\ RagConstructed
    /\ NotCreating
    /\ tool = "deployment"
    /\ call = [id |-> "call_1", name |-> "tool_a",
               arguments |-> [valid |-> TRUE, keys |-> {"prompt"}]]
    /\ tpc = "ready"
    /\ msg = None
    /\ content = <<>>
    /\ custom_content = <<>>
    /\ stage = <<>>
    /\ stageAtts = <<>>
    /\ createCalls = 0
    /\ received = <<>>
    /\ raised = None
    /\ streamStart = -1
    /\ pypc = "ready"
    /\ pycall \in PyCallParams
    /\ pyExec = None
    /\ pyOut = <<>>
    /\ pyIdx = 0
    /\ pyStage = <<>>
    /\ pyStageAtts = <<>>
    /\ pyChoiceAtts = <<>>
    /\ pyEvents = <<>>
    /\ pyMsg = None
    /\ pyRaised = None

NextPy ==
    \/ PyBegin
    \/ \E e \in ClientErrors : PyCallFails(e)
    \/ \E items \in PyCallContents : PyCallReturns(items)
    \/ \E e \in ClientErrors : PyResourceFails(e)
    \/ \E items \in PyResourceContents, uploads \in BOOLEAN :
          PyResourceReturns(items, uploads)
    \/ PyChoiceAdd

SpecPy == InitPy /\ [][NextPy]_vars

-----------------------------------------------------------------------------
(* What the stream carried, read off the increments themselves *)

\* the text delta an increment carries: that of its first choice
IncText(inc) ==
    IF inc.choices = None \/ Val(inc.choices) = <<>> THEN <<>>
    ELSE LET d == Val(inc.choices)[1].delta IN
         IF d = None \/ Val(d).content = None THEN <<>>
         ELSE Val(Val(d).content)

\* the attachments an increment carries, in their order within the increment
IncAtts(inc) ==
    IF inc.choices = None \/ Val(inc.choices) = <<>> THEN <<>>
    ELSE LET d == Val(inc.choices)[1].delta IN
         IF d = None \/ Val(d).custom_content = None THEN <<>>
         ELSE LET a == Val(Val(d).custom_content).attachments IN
              IF a = None THEN <<>> ELSE Val(a)

RECURSIVE AllText(_)
AllText(incs) ==
    IF incs = <<>> THEN <<>> ELSE IncText(Head(incs)) \o AllText(Tail(incs))

RECURSIVE AllAtts(_)
AllAtts(incs) ==
    IF incs = <<>> THEN <<>> ELSE IncAtts(Head(incs)) \o AllAtts(Tail(incs))

\* an increment with no choices, no delta, or neither text nor attachments
NoOpIncrement(inc) == IncText(inc) = <<>> /\ IncAtts(inc) = <<>>

StreamEntered == streamStart >= 0
StreamFailed == tpc = "done" /\ raised # None /\ StreamEntered

\* the text appended to the stage since the streaming loop was entered
StagedText == Concat(SubSeq(stage, streamStart + 1, Len(stage)))

-----------------------------------------------------------------------------
(* Claims about the tool call *)

\* C1: for every tool and every error raised by its _execute, execute returns
\* (it does not propagate the error) a tool-role message whose tool_call_id is
\* the call's id, whose name is the called tool's name and whose content is
\* the error marker followed by the error's description.
C1_ErrorContained ==
    (tpc = "done" /\ raised # None) =>
        /\ msg # None
        /\ Val(msg).role = "tool"
        /\ Val(msg).tool_call_id = Some(call.id)
        /\ Val(msg).name = Some(call.name)
        /\ Val(msg).content # None
        /\ IsPrefix(<<"ERROR during tool call execution:\n ">>, Val(Val(msg).content))
        /\ Val(Val(msg).content) =
              <<"ERROR during tool call execution:\n ">> \o Val(raised).desc

\* C1 witness: a deployment call whose stream raised after an increment
C1_Witness ==
    /\ tpc = "done"
    /\ tool = "deployment"
    /\ raised # None
    /\ Val(raised).type = "APITimeoutError"
    /\ Len(received) >= 1

\* C2: for every outcome of _execute (text, structured message or error) the
\* message execute returns has the tool role, the call's id as tool_call_id
\* and the call's tool name as name.
C2_Correlated ==
    tpc = "done" =>
        /\ msg # None
        /\ Val(msg).role = "tool"
        /\ Val(msg).tool_call_id = Some(call.id)
        /\ Val(msg).name = Some(call.name)

\* C8: the deployment tool's text is the concatenation of the text deltas in
\* arrival order and its attachment list is all attachments in arrival order,
\* after every increment and in the message it returns; an increment with no
\* choices, no delta, or no text and no attachments adds nothing and raises
\* nothing.
C8_Aggregate ==
    /\ (tool = "deployment" /\ tpc = "streaming") =>
          /\ content = AllText(received)
          /\ custom_content = AllAtts(received)
          /\ raised = None
          /\ (\A i \in 1..Len(received) : NoOpIncrement(received[i]))
                => (content = <<>> /\ custom_content = <<>>)
    /\ (tool = "deployment" /\ tpc = "done" /\ raised = None) =>
          /\ Val(msg).content = Some(AllText(received))
          /\ Val(msg).custom_content = Some([attachments |-> AllAtts(received)])

\* C8 witness: the stream "ab", [A], no-op, ... of the deployment tool ended
C8_Witness ==
    /\ tool = "deployment"
    /\ tpc = "done"
    /\ raised = None
    /\ Len(received) = 3
    /\ IncText(received[1]) = <<"a", "b">>
    /\ IncAtts(received[2]) = <<AttA>>
    /\ IncText(received[3]) = <<"c">>
    /\ Val(msg).content = Some(<<"a", "b", "c">>)

\* C9: after each increment the text appended to the stage since streaming
\* began is the text accumulated so far and the attachments added to the stage
\* are the attachments accumulated so far, in order; at the end the stage
\* matches the returned aggregate.
C9_StageMatches ==
    /\ StreamEntered =>
          /\ StagedText = content
          /\ stageAtts = custom_content
    /\ (StreamEntered /\ tpc = "done" /\ raised = None) =>
          /\ Val(msg).content = Some(StagedText)
          /\ tool = "deployment" =>
                Val(msg).custom_content = Some([attachments |-> stageAtts])
          /\ tool = "rag" => stageAtts = <<>>

\* C9 witness: two texts and attachment B (with reference fields) forwarded
C9_Witness ==
    /\ tpc = "streaming"
    /\ Len(stage) - streamStart >= 2
    /\ Len(stageAtts) >= 2
    /\ stageAtts[1] = AttB

\* C10: if the stream fails after n increments, the completion request was
\* issued once (no retry), execute returns the error-marked message, and the
\* text and attachments of those n increments stay on the stage.
C10_NoRetryNoRollback ==
    StreamFailed =>
        /\ createCalls = 1
        /\ IsPrefix(<<"ERROR during tool call execution:\n ">>, Val(Val(msg).content))
        /\ StagedText = AllText(received)
        /\ tool = "deployment" => stageAtts = AllAtts(received)

\* C10 witness: a stream that failed after two increments, text and an
\* attachment already forwarded
C10_Witness ==
    /\ StreamFailed
    /\ Len(received) = 2
    /\ StagedText # <<>>
    /\ stageAtts # <<>>

-----------------------------------------------------------------------------
(* Claims about the MCP session *)

ToolOperations == {"get_tools", "call_tool", "get_resource"}

FullConnect == <<"open_transport", "enter_session", "initialize", "ping">>

\* task t has just called connect() (the step is the call itself)
ConnectCalled(t) ==
    /\ mpc[t] = "idle"
    /\ calls' = calls + 1
    /\ op'[t] = "connect"

\* C3: in every session state that is Disconnected or Closed (never
\* connected, after close, after a failed connect) get_tools, call_tool and
\* get_resource fail with "not connected" and send nothing to the server.
C3_DownMeansNotConnected ==
    \A t \in Tasks :
        (op[t] \in ToolOperations /\ phase0[t] \in {"Disconnected", "Closed"}) =>
            /\ trace[t] = <<>>
            /\ result[t] = Raise(Err("RuntimeError", <<"MCP client not connected.">>))

\* C4: a connect() made while the session is Connected returns at once: no
\* transport is opened, no handshake and no ping are made, and the session
\* and both context handles are left as they were.
C4_ConnectIdempotent ==
    [][\A t \in Tasks :
          (ConnectCalled(t) /\ phase = "Connected") =>
              /\ mpc'[t] = "idle"
              /\ result'[t] = Return(PyNone)
              /\ trace'[t] = <<>>
              /\ session' = session /\ session # None
              /\ streams_context' = streams_context
              /\ session_context' = session_context
              /\ nextCtx' = nextCtx
              /\ unreleased' = unreleased
              /\ phase' = "Connected"]_vars

\* C4 witness: connect() returned from a call made in state Connected
C4_Witness ==
    /\ op["main"] = "connect"
    /\ phase0["main"] = "Connected"
    /\ mpc["main"] = "idle"
    /\ result["main"] = Return(PyNone)
    /\ session # None

\* C5: when the ping fails, connect() raises the connection error and, when
\* it does, both layers it opened have been released (handshake layer, then
\* transport layer) and the session and both handles are cleared.
C5_PingFailureTearsDown ==
    \A t \in Tasks :
        (op[t] = "connect" /\ mpc[t] = "idle" /\ frame[t].pingErr # None) =>
            /\ result[t].kind = "raise"
            /\ result[t].error.type = "ValueError"
            /\ IsPrefix(<<"MCP server connection failed: ">>, result[t].error.desc)
            /\ trace[t] = FullConnect \o <<"exit_session", "exit_streams">>
            /\ Val(frame[t].sc) \notin unreleased
            /\ Val(frame[t].xc) \notin unreleased
            /\ session = None
            /\ streams_context = None
            /\ session_context = None

\* C5 witness: connect() has raised after a failed ping
C5_Witness ==
    /\ op["main"] = "connect"
    /\ mpc["main"] = "idle"
    /\ frame["main"].pingErr # None
    /\ result["main"].kind = "raise"

\* C6: close() never raises and ends with the session and both handles
\* cleared, whatever the state it is called in and whichever releases fail.
C6_CloseNeverRaises ==
    \A t \in Tasks :
        (op[t] = "close" /\ mpc[t] = "idle") =>
            /\ result[t] = Return(PyNone)
            /\ session = None
            /\ streams_context = None
            /\ session_context = None

\* C6 witness: a close() in which both releases failed has returned, called
\* on a connected session
C6_Witness ==
    /\ op["main"] = "close"
    /\ mpc["main"] = "idle"
    /\ phase0["main"] = "Connected"
    /\ Len(warnings["main"]) = 2

\* C7 as stated: once a close() has completed the session is never
\* Connected again.
C7_ClosedIsTerminal == everClosed => phase # "Connected"

\* C7 amended: Closed is not terminal.  close() leaves the session
\* disconnected, and a connect() made in state Closed that returns normally
\* has made a full new connection (transport, handshake, initialize, ping)
\* and the session is Connected again.
C7_ReconnectAfterClose ==
    /\ phase = "Closed" => session = None
    /\ \A t \in Tasks :
          (op[t] = "connect" /\ phase0[t] = "Closed" /\ mpc[t] = "idle"
              /\ result[t].kind = "return") =>
                /\ trace[t] = FullConnect
                /\ phase = "Connected"
                /\ session # None

\* C7 witness: connect() returned normally from a call made in state Closed
C7_Witness ==
    /\ everClosed
    /\ op["main"] = "connect"
    /\ phase0["main"] = "Closed"
    /\ mpc["main"] = "idle"
    /\ result["main"].kind = "return"
    /\ phase = "Connected"

\* C17: a connect() (direct or through scoped entry) that fails while opening
\* the transport, entering the handshake layer or in initialize has, when it
\* returns, released every layer it opened and cleared the session and both
\* handles; and a connect() made in a state that is not Connected and that
\* returns normally has made a full connection.
C17_HandshakeFailureTornDown ==
    \A t \in Tasks :
        /\ (op[t] = "connect" /\ mpc[t] = "idle" /\ result[t].kind = "raise"
               /\ frame[t].pingErr = None) =>
              /\ session = None
              /\ streams_context = None
              /\ session_context = None
              /\ frame[t].sc # None => Val(frame[t].sc) \notin unreleased
              /\ frame[t].xc # None => Val(frame[t].xc) \notin unreleased
        /\ (op[t] = "connect" /\ mpc[t] = "idle" /\ result[t].kind = "return"
               /\ phase0[t] \in {"Disconnected", "Closed"}) =>
              trace[t] = FullConnect

\* C18: close() releases the handshake layer before the transport layer,
\* each at most once, and attempts the transport release whether or not the
\* handshake release failed: called on a connected session its releases are
\* exactly exit_session then exit_streams, and in every state they are the
\* handles that were set, in that order.
C18_ReverseOrderRelease ==
    \A t \in Tasks :
        (op[t] = "close" /\ mpc[t] = "idle") =>
            /\ trace[t] \in {<<>>, <<"exit_session">>, <<"exit_streams">>,
                             <<"exit_session", "exit_streams">>}
            /\ phase0[t] = "Connected" =>
                  trace[t] = <<"exit_session", "exit_streams">>
            /\ frame[t].xc # None =>
                  (frame[t].sc # None <=> trace[t] = <<"exit_session", "exit_streams">>)
            /\ \A i \in 1..Len(warnings[t]) :
                  warnings[t][i][2] = "session" => i = 1

\* C18 witness: close() of a connected session whose handshake release
\* failed and whose transport release was still made
C18_Witness ==
    /\ op["main"] = "close"
    /\ mpc["main"] = "idle"
    /\ phase0["main"] = "Connected"
    /\ Len(warnings["main"]) = 1
    /\ warnings["main"][1][2] = "session"
    /\ trace["main"] = <<"exit_session", "exit_streams">>

-----------------------------------------------------------------------------
(* The retrieval pipeline and its cache *)

\* task t has made a RAG call whose arguments name a request and a document
RagCalled(t) ==
    /\ rpc[t] # "idle"
    /\ rcall[t].arguments.valid
    /\ rcall[t].arguments.request # None
    /\ rcall[t].arguments.file_url # None

ConvOf(t) == rcall[t].conversation_id
UrlOf(t) == Val(rcall[t].arguments.file_url)
RequestOf(t) == Val(rcall[t].arguments.request)
KeyOf(t) == ConvOf(t) \o <<":">> \o UrlOf(t)

\* the call of t came right after a call with its conversation id and URL
FollowsSameDocument(t) ==
    /\ RagCalled(t)
    /\ rloc[t].pred # None
    /\ Val(rloc[t].pred).conversation_id = ConvOf(t)
    /\ Val(rloc[t].pred).file_url = UrlOf(t)

Asked(t, what) == \E i \in 1..Len(rwork[t]) : rwork[t][i] = what

\* the work of the miss path
MissWork == {"download", "extract", "split", "encode_chunks", "index_add", "set"}

\* the call of t hit the cache: it took the stored pair and did none of the
\* work of the miss path
ReusedEntry(t) ==
    /\ rloc[t].hit
    /\ \A w \in MissWork : ~Asked(t, w)
    /\ KeyOf(t) \in DOMAIN document_cache
    /\ <<rloc[t].index, rloc[t].chunks>> = document_cache[KeyOf(t)]

\* C11 as stated: of two consecutive RAG calls with the same conversation id
\* and document URL, the second hits the cache, reuses the stored (index,
\* chunks) pair and performs no extraction, chunking, chunk embedding or
\* cache write.
C11_SecondCallHits ==
    \A t \in Tasks : FollowsSameDocument(t) => ReusedEntry(t)

\* C11, amended: the second call hits and reuses the stored pair, with no
\* extraction, chunking, chunk embedding or cache write, whenever the first
\* call held an entry for the key (it hit, or it stored one); a first call
\* that found no text or raised before storing leaves no entry.
C11_SecondCallHitsAfterStore ==
    \A t \in Tasks :
        (FollowsSameDocument(t) /\ Val(rloc[t].pred).held) => ReusedEntry(t)

\* C11 witness: the second call, with another request string, reused the
\* four-chunk entry the first call stored
C11_Witness ==
    /\ FollowsSameDocument("other")
    /\ Val(rloc["other"].pred).held
    /\ Val(rloc["other"].pred).request # RequestOf("other")
    /\ rloc["other"].hit
    /\ Len(rloc["other"].chunks) = 4
    /\ Len(cacheWrites) = 1

\* C12: a RAG call never reuses an entry stored by a call of another
\* conversation or for another document: the entry a hit takes was stored
\* under the same conversation id and the same URL.
C12_CacheIsolation ==
    \A t \in Tasks :
        (RagCalled(t) /\ rloc[t].hit) =>
            \A i \in 1..Len(cacheWrites) :
                cacheWrites[i].key = KeyOf(t) =>
                    /\ cacheWrites[i].conversation_id = ConvOf(t)
                    /\ cacheWrites[i].file_url = UrlOf(t)

\* every stored entry has one index row per chunk, row i the embedding of
\* chunk i
EntriesAligned ==
    \A key \in DOMAIN document_cache :
        LET index == document_cache[key][1]
            chunks == document_cache[key][2]
        IN /\ Len(index) = Len(chunks)
           /\ \A i \in 1..Len(chunks) : index[i] = Vector(chunks[i])

\* a step leaves every stored entry as it is
EntriesKept ==
    \A key \in DOMAIN document_cache :
        /\ key \in DOMAIN document_cache'
        /\ document_cache'[key] = document_cache[key]

\* C13: in every stored cache entry the number of index vectors equals the
\* number of chunks and index row i is the embedding of chunk i, and no
\* later call changes a stored entry (so not the order of its chunks).
C13_IndexAlignedStable == []EntriesAligned /\ [][EntriesKept]_vars

\* C13 witness: an entry of two chunks in document order p3, p1 is stored and
\* a later call has run against it
C13_Witness ==
    /\ \E key \in DOMAIN document_cache :
          document_cache[key][2] = << <<"p3">>, <<"p1">> >>
    /\ rpc["main"] = "done"
    /\ rloc["other"].hit

\* C15: a miss whose extracted text is empty returns the plain "content not
\* found" text without raising and without the error marker, stores nothing
\* in the cache, and issues no embedding and no completion request.
C15_NotFoundIsPlainResult ==
    \A t \in Tasks :
        (RagCalled(t) /\ rloc[t].text = Some(<<>>)) =>
            /\ rpc[t] = "done"
            /\ rraised[t] = None
            /\ Val(rmsg[t]).content = Some(<<"Error: File content not found.">>)
            /\ ~IsPrefix(ErrorMarker, Val(Val(rmsg[t]).content))
            /\ \A i \in 1..Len(cacheWrites) : cacheWrites[i].task # t
            /\ \A w \in {"split", "encode_chunks", "index_add", "set",
                         "encode_query", "search", "create"} : ~Asked(t, w)

\* C15 witness: a call missed, extracted an empty text and returned
C15_Witness ==
    /\ RagCalled("main")
    /\ ~rloc["main"].hit
    /\ Asked("main", "extract")
    /\ rloc["main"].text = Some(<<>>)
    /\ rpc["main"] = "done"

\* the call of u started while the call of t, with the same key, was
\* suspended
Overlapped(t, u) ==
    /\ t # u
    /\ RagCalled(t)
    /\ RagCalled(u)
    /\ t \in rloc[u].during
    /\ ConvOf(t) = ConvOf(u)
    /\ UrlOf(t) = UrlOf(u)

WritesUnder(key) == {i \in 1..Len(cacheWrites) : cacheWrites[i].key = key}

\* C16 as stated: two overlapping RAG calls with the same key both miss and
\* both run the extraction/embedding path, the later store overwriting the
\* earlier; after both the cache holds one well-formed entry for the key.
C16_OverlapBothMiss ==
    \A t, u \in Tasks :
        (Overlapped(t, u) /\ ~rloc[t].hit) =>
            /\ ~rloc[u].hit
            /\ Asked(u, "set")
            /\ EntriesAligned

\* C16, amended: a RAG call runs from its cache lookup to its store without
\* suspending, so a call that starts while another with the same key is
\* suspended finds that call's entry: it hits and reuses it, the key is
\* stored at most once, and the cache holds one well-formed entry for it.
C16_OverlapSecondHits ==
    \A t, u \in Tasks :
        Overlapped(t, u) =>
            /\ ReusedEntry(u)
            /\ Cardinality(WritesUnder(KeyOf(u))) <= 1
            /\ EntriesAligned

\* C16 witness: the first call missed and stored, and the second, started
\* while the first waited for its completion stream, hit
C16_Witness ==
    /\ Overlapped("main", "other")
    /\ Asked("main", "set")
    /\ rloc["other"].hit
    /\ rpc["main"] = "done"
    /\ rpc["other"] = "done"

\* C19: a call that reaches the query step with n chunks retrieves exactly
\* min(3, n) chunks, never more than n; each is a chunk of the entry stored
\* under the call's cache key; and they stand in the context block of the
\* augmented prompt in order of increasing distance from the request.
C19_TopKRetrieval ==
    \A t \in Tasks :
        (RagCalled(t) /\ Asked(t, "search")) =>
            LET n == Len(rloc[t].chunks)
                labels == rloc[t].labels
                k == Len(labels)
                q == Vector(RequestOf(t))
                row(i) == rloc[t].index[labels[i] + 1]
                picked == [i \in 1..k |-> rloc[t].chunks[labels[i] + 1]]
            IN /\ k = (IF n < 3 THEN n ELSE 3)
               /\ k <= n
               /\ \A i \in 1..k : labels[i] \in 0..(n - 1)
               /\ \A i, j \in 1..k : i < j => labels[i] # labels[j]
               /\ KeyOf(t) \in DOMAIN document_cache
               /\ rloc[t].chunks = document_cache[KeyOf(t)][2]
               /\ \A i, j \in 1..k :
                     i < j => Distance(row(i), q) <= Distance(row(j), q)
               /\ rloc[t].prompt =
                     <<"CONTEXT:\n">> \o JoinChunks(picked)
                        \o <<"\n---\nREQUEST: ">> \o RequestOf(t)

\* C19 witness: a call over two chunks retrieved both, and a call over four
\* chunks retrieved three
C19_Witness ==
    /\ RagCalled("main")
    /\ RagCalled("other")
    /\ Len(rloc["main"].chunks) = 2
    /\ Len(rloc["main"].labels) = 2
    /\ Len(rloc["other"].chunks) = 4
    /\ Len(rloc["other"].labels) = 3

-----------------------------------------------------------------------------
(* The code-execution tool *)

\* the call returned normally with a validated execution result
PySucceeded == pypc = "done" /\ pyRaised = None /\ pyExec # None

\* C14: the code-execution tool returns an output array with the same number
\* of fragments in the same order, each fragment the first 200 characters of
\* the original: its length is min(200, original length).
C14_OutputTruncated ==
    PySucceeded =>
        LET orig == Val(pyExec).output IN
        /\ Len(pyOut) = Len(orig)
        /\ \A i \in 1..Len(orig) :
              /\ Len(pyOut[i]) = (IF Len(orig[i]) < 200 THEN Len(orig[i]) ELSE 200)
              /\ \A j \in 1..Len(pyOut[i]) : pyOut[i][j] = orig[i][j]
        /\ Val(pyMsg).content =
              Some(ModelDumpJson([output |-> pyOut, files |-> Val(pyExec).files],
                                 None))

\* C14 witness: a fragment of 300 characters came back with exactly 200,
\* after a fragment that was short enough to stay whole
C14_Witness ==
    /\ PySucceeded
    /\ Len(Val(pyExec).output) = 2
    /\ Len(Val(pyExec).output[1]) = 199
    /\ Len(pyOut[1]) = 199
    /\ Len(Val(pyExec).output[2]) = 300
    /\ Len(pyOut[2]) = 200

\* event what of file i stands in the log before place p
Before(what, i, p) ==
    \E a \in 1..(p - 1) : pyEvents[a] = [what |-> what, file |-> i]

\* C20: during a code-execution call the attachments on the choice are a
\* prefix of those on the stage, at most one behind; each attachment was
\* added only after its file's resource was read and then uploaded; and
\* when the call returns normally both hold exactly one attachment per
\* produced file, in the order of the files list.
C20_AttachmentsMirror ==
    /\ IsPrefix(pyChoiceAtts, pyStageAtts)
    /\ Len(pyStageAtts) - Len(pyChoiceAtts) \in {0, 1}
    /\ \A p \in 1..Len(pyEvents) :
          /\ pyEvents[p].what = "upload" => Before("read", pyEvents[p].file, p)
          /\ pyEvents[p].what = "stage" => Before("upload", pyEvents[p].file, p)
          /\ pyEvents[p].what = "choice" => Before("stage", pyEvents[p].file, p)
    /\ \A i \in 1..Len(pyStageAtts) :
          \E p \in 1..Len(pyEvents) : pyEvents[p] = [what |-> "stage", file |-> i]
    /\ \A i \in 1..Len(pyChoiceAtts) :
          \E p \in 1..Len(pyEvents) : pyEvents[p] = [what |-> "choice", file |-> i]
    /\ PySucceeded =>
          LET files == Val(pyExec).files
              expected == [i \in 1..Len(files) |-> Attachment(files[i])]
          IN pyStageAtts = expected /\ pyChoiceAtts = expected

\* C20 witness: the second file's attachment is on the stage and not yet on
\* the choice, which holds the first file's
C20_Witness ==
    /\ pypc = "staged"
    /\ pyIdx = 2
    /\ Val(pyExec).files = <<ImageFile, TextFile>>
    /\ Len(pyStageAtts) = 2
    /\ Len(pyChoiceAtts) = 1

-----------------------------------------------------------------------------
(* Reading a resource *)

\* C21: on a connected session get_resource returns the text of the first
\* content item when that item is textual and its blob when it is a blob,
\* and raises, returning no value, when the content list is empty or its
\* first item is of any other kind.
C21_ResourceByFirstItem ==
    \A t \in Tasks :
        (op[t] = "get_resource" /\ mpc[t] = "idle" /\ frame[t].contents # None) =>
            LET items == Val(frame[t].contents) IN
            IF items = <<>>
            THEN /\ result[t].kind = "raise"
                 /\ result[t].error.type = "ValueError"
            ELSE IF items[1].type = "TextResourceContents"
            THEN result[t] = [kind |-> "return",
                              value |-> [py |-> "str", v |-> items[1].text]]
            ELSE IF items[1].type = "BlobResourceContents"
            THEN result[t] = [kind |-> "return",
                              value |-> [py |-> "str", v |-> items[1].blob]]
            ELSE /\ result[t].kind = "raise"
                 /\ result[t].error.type = "ValueError"

\* C21 witness: on a connected session the server answered a read with an
\* empty content list and get_resource raised
C21_Witness ==
    /\ op["main"] = "get_resource"
    /\ mpc["main"] = "idle"
    /\ phase0["main"] = "Connected"
    /\ frame["main"].contents = Some(<<>>)
    /\ result["main"].kind = "raise"

-----------------------------------------------------------------------------
(* Setting up the code-execution tool *)

\* C22: when PythonCodeInterpreterTool.create fails after its session has
\* connected (the tool listing fails, or the server does not offer the named
\* tool), the session it opened has been closed when the error reaches the
\* caller: the session reference and both handles are cleared and no entered
\* layer is left unreleased.
C22_CreateReleasesSession ==
    (cpc = "done" /\ made.kind = "raise" /\ op["main"] = "get_tools") =>
        /\ session = None
        /\ streams_context = None
        /\ session_context = None
        /\ unreleased = {}

-----------------------------------------------------------------------------
(* The client shared by two tasks *)

\* a connect() of another task is suspended after its transport is opened
\* and before its handshake and ping have completed
InConnectWindow(u) ==
    \E t \in Tasks \ {u} :
        /\ op[t] = "connect"
        /\ mpc[t] \in {"c_enter", "c_init", "c_ping"}

\* task u has just called method name (the step is the call itself)
Called(u, name) ==
    /\ mpc[u] = "idle"
    /\ calls' = calls + 1
    /\ op'[u] = name

\* C23: a tool operation invoked by another task while connect() is
\* suspended in that window fails with "not connected" and sends nothing,
\* and a connect() invoked in that window does not return as already
\* connected.
C23_NothingSentBeforeConnected ==
    [][\A u \in Tasks :
          InConnectWindow(u) =>
              /\ (\E name \in ToolOperations : Called(u, name)) =>
                    /\ mpc'[u] = "idle"
                    /\ result'[u] = [kind |-> "raise", error |-> NotConnected]
                    /\ trace'[u] = <<>>
              /\ Called(u, "connect") => mpc'[u] # "idle"]_vars

====
